---- MODULE Spec2Model ----
(***************************************************************************)
(* A model of beancount's price database (ops/prices.py) and of the        *)
(* inventory booking validator (ops/validation.py).                        *)
(*                                                                         *)
(* Numbers are Python Decimals: a coefficient and an exponent, rounded     *)
(* half-even to Prec significant digits after every division and product.  *)
(* None is the empty tuple << >> and a present value v is <<v>>.           *)
(***************************************************************************)
EXTENDS Integers, Sequences, FiniteSets, TLC

(***************************************************************************)
(* Bounds of the model.                                                    *)
(***************************************************************************)
\* Significant digits of the decimal context (28 in Python, scaled down).
Prec == 3
\* Longest entry list handed to the price functions.
MaxEntries == 3
\* Dates are 1..MaxDate.
MaxDate == 2

\* Longest entry list of the runs that go on to query the price map.
MaxLookupEntries == 2
\* Most directives, and most postings in all, of a validated ledger.
MaxDirectives == 2
MaxPostings == 2
\* Directives in the list handed to validate_open_close.
MaxOpenClose == 4
\* Directives of the ledger a shell is started on, statements of a session,
\* and the largest LIMIT of a statement.
MaxShellEntries == 3
MaxStatements == 2
MaxLimit == 2
\* Postings to the account that the FIFO plugin books.
MaxFifoPostings == 3

Currencies == {"USD", "CAD"}
\* The (base, quote) pairs that Price entries are written for: both directions
\* of one pair, and a currency priced in itself.
PricedPairs == {<<"USD", "CAD">>, <<"CAD", "USD">>, <<"USD", "USD">>}
Dates == 1..MaxDate
\* A quote currency of None.
NoCurrency == "None"

(***************************************************************************)
(* Decimal arithmetic.                                                     *)
(***************************************************************************)
RECURSIVE Pow10(_)
Pow10(n) == IF n <= 0 THEN 1 ELSE 10 * Pow10(n - 1)

RECURSIVE Digits(_)
Digits(c) == IF c < 10 THEN 1 ELSE 1 + Digits(c \div 10)

Dec(c, e) == [c |-> c, e |-> e]

\* Two Decimals are equal when their values are: trailing zeros are dropped.
RECURSIVE Normalize(_, _)
Normalize(c, e) ==
    IF c = 0 THEN Dec(0, 0)
    ELSE IF c % 10 = 0 THEN Normalize(c \div 10, e + 1)
    ELSE Dec(c, e)

\* q with `rem` left of a division by `den`, rounded half-even.
RoundHalfEven(q, rem, den) ==
    IF 2 * rem > den \/ (2 * rem = den /\ q % 2 = 1) THEN q + 1 ELSE q

\* A coefficient of any length rounded to Prec digits.
DecRound(c, e) ==
    LET d == Digits(c) IN
    IF d <= Prec THEN Normalize(c, e)
    ELSE LET k == d - Prec
             p == Pow10(k)
         IN Normalize(RoundHalfEven(c \div p, c % p, p), e + k)

\* a / b for positive b, correctly rounded to Prec digits.
DecDiv(a, b) ==
    IF a.c = 0 THEN Dec(0, 0)
    ELSE LET k   == Digits(b.c) - Digits(a.c) + Prec
             num == a.c * Pow10(k)
             q   == num \div b.c
             rem == num % b.c
             ex  == a.e - b.e - k
         IN IF q < Pow10(Prec)
            THEN Normalize(RoundHalfEven(q, rem, b.c), ex)
            ELSE \* Prec+1 digits: the last digit and the remainder decide.
                 LET q1 == q \div 10
                     r1 == q % 10
                     up == \/ r1 > 5
                           \/ (r1 = 5 /\ rem > 0)
                           \/ (r1 = 5 /\ rem = 0 /\ q1 % 2 = 1)
                 IN Normalize(IF up THEN q1 + 1 ELSE q1, ex + 1)

\* a * b rounded to Prec digits.
DecMul(a, b) == DecRound(a.c * b.c, a.e + b.e)

ONE == Dec(1, 0)

\* Rates that Price entries carry: 7, 0.5 (positive, as the parser's Price
\* directives for a rate are).
Rates == {Dec(7, 0), Dec(5, -1)}
\* Numbers of the amounts that are converted.
Numbers == {Dec(3, 0), Dec(15, -1)}

(***************************************************************************)
(* Directives.                                                             *)
(***************************************************************************)
Amount(number, currency) == [number |-> number, currency |-> currency]

Price(date, currency, amount, lineno) ==
    [kind |-> "Price", date |-> date, currency |-> currency,
     amount |-> amount, lineno |-> lineno]

\* Any directive that is not a Price (an Open, a Note, ...).
Other(date, lineno) ==
    [kind |-> "Open", date |-> date, currency |-> "",
     amount |-> Amount(Dec(0, 0), ""), lineno |-> lineno]

NewEntries(lineno) ==
    {Price(d, bq[1], Amount(r, bq[2]), lineno) :
        d \in Dates, bq \in PricedPairs, r \in Rates}
    \cup {Other(d, lineno) : d \in Dates}

Point(date, rate) == [date |-> date, rate |-> rate]

(***************************************************************************)
(* misc_utils helpers used by the price database.                          *)
(***************************************************************************)
\* p goes after every element whose date is not later: the sort is stable.
RECURSIVE InsertByDate(_, _)
InsertByDate(s, p) ==
    IF s = <<>> THEN <<p>>
    ELSE IF Head(s).date <= p.date THEN <<Head(s)>> \o InsertByDate(Tail(s), p)
    ELSE <<p>> \o s

RECURSIVE SortedByDate(_)
SortedByDate(s) ==
    IF s = <<>> THEN <<>>
    ELSE InsertByDate(SortedByDate(SubSeq(s, 1, Len(s) - 1)), s[Len(s)])

RECURSIVE KeepLastOfRun(_)
KeepLastOfRun(s) ==
    IF Len(s) <= 1 THEN s
    ELSE IF s[1].date = s[2].date THEN KeepLastOfRun(Tail(s))
    ELSE <<s[1]>> \o KeepLastOfRun(Tail(s))

\* Sort on the key (the date) and keep the last of the elements of each key.
uniquify_last(date_rates) == KeepLastOfRun(SortedByDate(date_rates))

\* The index after the last element whose date is <= date, by bisection.
RECURSIVE Bisect(_, _, _, _)
Bisect(sequence, date, lo, hi) ==
    IF lo >= hi THEN lo
    ELSE LET mid == (lo + hi) \div 2 IN
         \* Python indexes from 0: sequence[mid] is the (mid+1)-th element.
         IF date < sequence[mid + 1].date
         THEN Bisect(sequence, date, lo, mid)
         ELSE Bisect(sequence, date, mid + 1, hi)

bisect_right_with_key(sequence, date) == Bisect(sequence, date, 0, Len(sequence))

(***************************************************************************)
(* build_price_map                                                         *)
(***************************************************************************)
Reverse(base_quote) == <<base_quote[2], base_quote[1]>>

base_quote_of(price) == <<price.currency, price.amount.currency>>

price_entries(entries) == SelectSeq(entries, LAMBDA entry : entry.kind = "Price")

RECURSIVE PointsOf(_, _)
PointsOf(prices, base_quote) ==
    IF prices = <<>> THEN <<>>
    ELSE LET price == Head(prices)
             rest  == PointsOf(Tail(prices), base_quote)
         IN IF base_quote_of(price) = base_quote
            THEN <<Point(price.date, price.amount.number)>> \o rest
            ELSE rest

RECURSIVE PointsOfReversed(_, _)
PointsOfReversed(prices, base_quote) ==
    IF prices = <<>> THEN <<>>
    ELSE LET price == Head(prices)
             rest  == PointsOfReversed(Tail(prices), base_quote)
         IN IF base_quote_of(price) = base_quote
            THEN rest \o <<Point(price.date, price.amount.number)>>
            ELSE rest

\* Each point put in front of the list instead of appended to it.
collect_prices_prepending(prices) ==
    [base_quote \in {base_quote_of(prices[i]) : i \in DOMAIN prices} |->
        PointsOfReversed(prices, base_quote)]

\* (base, quote) -> the (date, rate) points of its Price entries, in entry order.
collect_prices(prices) ==
    [base_quote \in {base_quote_of(prices[i]) : i \in DOMAIN prices} |->
        PointsOf(prices, base_quote)]

\* The orders in which a dict may hand out its keys.
KeyOrders(keys) ==
    {order \in [1..Cardinality(keys) -> keys] :
        \A i, j \in DOMAIN order : i # j => order[i] # order[j]}

\* The keys whose inverse is a key too. The list of them is in the dict's
\* iteration order: any of KeyOrders(inversed_units(price_map)).
inversed_units(price_map) ==
    {base_quote \in DOMAIN price_map : Reverse(base_quote) \in DOMAIN price_map}

\* Reading a key of a defaultdict(list) that is missing creates it, empty.
Touch(price_map, key) ==
    IF key \in DOMAIN price_map THEN price_map
    ELSE [k \in DOMAIN price_map \cup {key} |->
            IF k = key THEN <<>> ELSE price_map[k]]

\* The inverse direction handed the rates of the forward one as they are.
Inverted_not(price_list) == price_list

Inverted(price_list) ==
    [i \in 1..Len(price_list) |->
        Point(price_list[i].date, DecDiv(ONE, price_list[i].rate))]

\* The comparison the other way round: the richer direction is deleted.
remove_key_larger(bq_prices, qb_prices, base_quote) ==
    IF Len(bq_prices) > Len(qb_prices) THEN base_quote ELSE Reverse(base_quote)

\* Which of the two directions is deleted.
remove_key(bq_prices, qb_prices, base_quote) ==
    IF Len(bq_prices) < Len(qb_prices) THEN base_quote ELSE Reverse(base_quote)

\* One pass of the loop that swallows the smaller direction into the other.
\* insert_list is extended after the deletion: when remove and its inverse are
\* the same key (a currency priced in itself) the list is no longer in the map.
swallow(price_map, base_quote) ==
    LET touched == Touch(Touch(price_map, base_quote), Reverse(base_quote))
        remove  == remove_key(touched[base_quote], touched[Reverse(base_quote)],
                              base_quote)
        insert  == Reverse(remove)
    IN [k \in DOMAIN touched \ {remove} |->
           IF k = insert
           THEN touched[insert] \o Inverted(touched[remove])
           ELSE touched[k]]

RECURSIVE swallow_all(_, _)
swallow_all(price_map, inversed) ==
    IF inversed = <<>> THEN price_map
    ELSE swallow_all(swallow(price_map, Head(inversed)), Tail(inversed))

\* The lists kept as collected, neither sorted nor made unique.
sorted_price_map_raw(price_map) == price_map

sorted_price_map(price_map) ==
    [base_quote \in DOMAIN price_map |-> uniquify_last(price_map[base_quote])]

\* No inverse is inserted.
insert_inverses_none(sorted_map) == sorted_map

\* Every key's inverse gets the inverted list of the key, read from the
\* snapshot list(sorted_price_map.items()).
insert_inverses(sorted_map) ==
    [k \in DOMAIN sorted_map \cup {Reverse(bq) : bq \in DOMAIN sorted_map} |->
        IF Reverse(k) \in DOMAIN sorted_map
        THEN Inverted(sorted_map[Reverse(k)])
        ELSE sorted_map[k]]

\* `inversed` is the list inversed_units, in the order the dict gave it.
build_price_map(entries, inversed) ==
    LET collected  == collect_prices(price_entries(entries))
        reconciled == swallow_all(collected, inversed)
        sorted_map == sorted_price_map(reconciled)
    IN [price_map     |-> insert_inverses(sorted_map),
        forward_pairs |-> DOMAIN sorted_map]

(***************************************************************************)
(* Lookups. A call either returns a value or raises: exc names the         *)
(* exception, "" when the call returned.                                   *)
(***************************************************************************)
Returned(val) == [exc |-> "", val |-> val]
Raised(exc) == [exc |-> exc, val |-> <<>>]

\* A Python pair (date, rate), either of which may be None.
Pair(date, rate) == <<date, rate>>
PairOfPoint(point) == Pair(<<point.date>>, <<point.rate>>)

lookup_price_and_inverse(price_map, base_quote) ==
    IF base_quote \in DOMAIN price_map THEN Returned(price_map[base_quote])
    ELSE LET inverse == Reverse(base_quote) IN
         \* `if prices:` is false of None and of an empty list.
         IF inverse \in DOMAIN price_map /\ price_map[inverse] # <<>>
         THEN Returned(price_map[inverse])
         ELSE Raised("KeyError")

get_all_prices(price_map, base_quote) ==
    lookup_price_and_inverse(price_map, base_quote)

\* The test without `base == quote`.
IsDegenerate_none_only(base_quote) == base_quote[2] = NoCurrency

\* A currency priced into its own, or into no currency.
IsDegenerate(base_quote) ==
    base_quote[2] = NoCurrency \/ base_quote[1] = base_quote[2]

\* price_list[0] instead of price_list[-1].
get_latest_price_first(price_map, base_quote) ==
    IF IsDegenerate(base_quote) THEN Returned(Pair(<<>>, <<ONE>>))
    ELSE LET found == lookup_price_and_inverse(price_map, base_quote) IN
         IF found.exc # "" THEN found
         ELSE IF found.val # <<>>
         THEN Returned(PairOfPoint(found.val[1]))
         ELSE Returned(<<>>)

get_latest_price(price_map, base_quote) ==
    IF IsDegenerate(base_quote) THEN Returned(Pair(<<>>, <<ONE>>))
    ELSE LET found == lookup_price_and_inverse(price_map, base_quote) IN
         IF found.exc # "" THEN found
         ELSE IF found.val # <<>>
         THEN Returned(PairOfPoint(found.val[Len(found.val)]))
         ELSE Returned(<<>>)

\* bisect_left in place of bisect_right: a point dated on the queried date
\* is not counted.
get_price_before(price_map, base_quote, date) ==
    IF date = <<>> THEN get_latest_price(price_map, base_quote)
    ELSE IF IsDegenerate(base_quote) THEN Returned(Pair(<<>>, <<ONE>>))
    ELSE LET found == lookup_price_and_inverse(price_map, base_quote) IN
         IF found.exc # "" THEN found
         ELSE LET index == bisect_right_with_key(found.val, date[1] - 1) IN
              IF index = 0 THEN Returned(Pair(<<>>, <<>>))
              ELSE Returned(PairOfPoint(found.val[index]))

get_price(price_map, base_quote, date) ==
    IF date = <<>> THEN get_latest_price(price_map, base_quote)
    ELSE IF IsDegenerate(base_quote) THEN Returned(Pair(<<>>, <<ONE>>))
    ELSE LET found == lookup_price_and_inverse(price_map, base_quote) IN
         IF found.exc # "" THEN found
         ELSE LET index == bisect_right_with_key(found.val, date[1]) IN
              IF index = 0 THEN Returned(Pair(<<>>, <<>>))
              ELSE Returned(PairOfPoint(found.val[index]))

\* The result is <<amount>>, or << >> for None.
convert_amount(price_map, target_currency, amount_) ==
    IF amount_.currency # target_currency
    THEN LET latest == get_latest_price(price_map,
                                        <<amount_.currency, target_currency>>) IN
         IF latest.exc = "KeyError" THEN Returned(<<>>)
         ELSE IF latest.exc # "" THEN latest
         ELSE IF latest.val = <<>> THEN Raised("TypeError")
         ELSE Returned(<<Amount(DecMul(amount_.number, latest.val[2][1]),
                                target_currency)>>)
    ELSE Returned(<<amount_>>)

(***************************************************************************)
(* get_last_price_entries                                                  *)
(***************************************************************************)
Put(map, key, value) ==
    [k \in DOMAIN map \cup {key} |-> IF k = key THEN value ELSE map[k]]

\* `entry.date > date`: the entries of the cutoff date are taken too.
RECURSIVE last_price_loop_inclusive(_, _, _)
last_price_loop_inclusive(entries, date, price_entry_map) ==
    IF entries = <<>> THEN price_entry_map
    ELSE LET entry == Head(entries) IN
         IF date # <<>> /\ entry.date > date[1] THEN price_entry_map
         ELSE last_price_loop_inclusive(
                Tail(entries), date,
                IF entry.kind = "Price"
                THEN Put(price_entry_map, base_quote_of(entry), entry)
                ELSE price_entry_map)

RECURSIVE last_price_loop(_, _, _)
last_price_loop(entries, date, price_entry_map) ==
    IF entries = <<>> THEN price_entry_map
    ELSE LET entry == Head(entries) IN
         IF date # <<>> /\ entry.date >= date[1] THEN price_entry_map
         ELSE last_price_loop(
                Tail(entries), date,
                IF entry.kind = "Price"
                THEN Put(price_entry_map, base_quote_of(entry), entry)
                ELSE price_entry_map)

\* data.entry_sortkey: the date, then the line of the file.
SortsBefore(a, b) ==
    a.date < b.date \/ (a.date = b.date /\ a.lineno < b.lineno)

RECURSIVE SortedEntries(_)
SortedEntries(set) ==
    IF set = {} THEN <<>>
    ELSE LET first == CHOOSE a \in set : \A b \in set \ {a} : SortsBefore(a, b)
         IN <<first>> \o SortedEntries(set \ {first})

get_last_price_entries(entries, date) ==
    LET price_entry_map == last_price_loop(entries, date, <<>>) IN
    SortedEntries({price_entry_map[k] : k \in DOMAIN price_entry_map})

(***************************************************************************)
(* The price database as a state machine: a list of entries is put         *)
(* together, the price map is built from it, and the map is queried.       *)
(***************************************************************************)
VARIABLES
    entries,        \* the directives handed to build_price_map
    pc,             \* "input", "built" or "queried"
    price_map,      \* the PriceMap that build_price_map returned
    forward_pairs,  \* its forward_pairs attribute
    call,           \* the last call made on the map, with its arguments
    ret             \* what that call returned or raised

price_vars == <<entries, pc, price_map, forward_pairs, call, ret>>

\* validate_inventory_booking, one pass of its loops at a time.
VARIABLES
    ledger,         \* the directives handed to validate_inventory_booking
    vpc,            \* "input", "running" or "done"
    entry_index,    \* the directive the outer loop is at
    posting_index,  \* the posting the inner loop is at
    balances,       \* account -> its running inventory (lot -> units)
    errors          \* the errors appended so far

booking_vars == <<ledger, vpc, entry_index, posting_index, balances, errors>>

\* validate_open_close, one pass of its loop at a time.
VARIABLES
    oc_entries,     \* the directives handed to validate_open_close
    oc_pc,          \* "input", "running" or "done"
    oc_index,       \* the directive the loop is at
    open_map,       \* account -> the Open directive recorded for it
    close_map,      \* account -> the Close directive recorded for it
    oc_errors       \* the errors appended so far

open_close_vars == <<oc_entries, oc_pc, oc_index, open_map, close_map, oc_errors>>

\* A BQLShell and the last statement it was given.
VARIABLES
    sh_pc,          \* "loading" before the shell is constructed, then "ready"
    sh_entries,     \* self.entries
    sh_options,     \* self.options_map
    statement,      \* the statement handed to dispatch
    handled,        \* how many statements have been dispatched
    calls,          \* what the handler called and printed, in order
    result_rows,    \* the rows handed to render_text
    printed_entries \* the directives execute_print wrote

shell_vars == <<sh_pc, sh_entries, sh_options, statement, handled, calls,
                result_rows, printed_entries>>

\* The FIFO plugin on the postings of its account, one posting at a time.
VARIABLES
    fifo_postings,  \* the postings to the account, in the order of the ledger
    fifo_pc,        \* "input", "running" or "done"
    fifo_index,     \* the posting the plugin is at
    pending_lots,   \* the lots held, in the order they were acquired
    new_postings,   \* for each posting gone through, what stands for it
    fifo_errors     \* the errors of the load so far

fifo_vars == <<fifo_postings, fifo_pc, fifo_index, pending_lots, new_postings,
               fifo_errors>>

\* split_expenses on a list of entries.
VARIABLES
    split_entries,  \* the entries handed to the plugin
    split_config,   \* None until the plugin is called, then its configuration
    split_result    \* None until the plugin is called, then what it returned

split_vars == <<split_entries, split_config, split_result>>

\* loader.load, one stage at a time.
VARIABLES
    load_pc,        \* the stage that load is about to run, "done" at its end
    load_entries,   \* entries
    load_errors,    \* errors
    load_plugins,   \* options_map["plugin"]
    plugin_index,   \* the plugin that the loop is at
    valid_errors,   \* None, then what validation.validate returned or raised
    load_ret        \* None, then what load returned or raised

load_vars == <<load_pc, load_entries, load_errors, load_plugins, plugin_index,
               valid_errors, load_ret>>

\* validate_open_close__old on a list of entries.
VARIABLES
    old_entries,    \* the entries handed to validate_open_close__old
    old_result      \* None, then what it returned

\* DispatchingShell.cmdloop.
VARIABLES
    cmd_pc,         \* "prompt" while in the loop, "ended" once it has returned
    cmdloop_calls,  \* how many times super().cmdloop() was called
    cmd_stdout      \* what was printed for each line read, in order

\* Report.render on a report.
VARIABLES
    report,         \* None, then the report: its class attributes
    render_args,    \* None, then (output_format, file) of the call
    render_ret,     \* None, then what render returned or raised
    render_calls,   \* the render methods called, in order
    outfiles        \* what was written to file and to the StringIO

\* The state of the plugins, of the loader, of the older validators, of the
\* command loop and of the reports.
later_vars == <<split_vars, load_vars, old_entries, old_result,
                cmd_pc, cmdloop_calls, cmd_stdout,
                report, render_args, render_ret, render_calls, outfiles>>

\* What the price functions never touch.
not_price_vars == <<booking_vars, open_close_vars, shell_vars, fifo_vars,
                    later_vars>>
\* What the booking validator never touches.
not_booking_vars == <<price_vars, open_close_vars, shell_vars, fifo_vars,
                      later_vars>>
\* What validate_open_close never touches.
not_open_close_vars == <<price_vars, booking_vars, shell_vars, fifo_vars,
                         later_vars>>
\* What the shell never touches.
not_shell_vars == <<price_vars, booking_vars, open_close_vars, fifo_vars,
                    later_vars>>
\* What the FIFO plugin never touches.
not_fifo_vars == <<price_vars, booking_vars, open_close_vars, shell_vars,
                   later_vars>>
\* The state of the price functions, of the validators, of the shell and of
\* the FIFO plugin.
earlier_vars == <<price_vars, booking_vars, open_close_vars, shell_vars,
                  fifo_vars>>
\* What split_expenses never touches.
not_split_vars == <<earlier_vars, load_vars, old_entries, old_result,
                    cmd_pc, cmdloop_calls, cmd_stdout,
                    report, render_args, render_ret, render_calls, outfiles>>
\* What load never touches.
not_load_vars == <<earlier_vars, split_vars, old_entries, old_result,
                   cmd_pc, cmdloop_calls, cmd_stdout,
                   report, render_args, render_ret, render_calls, outfiles>>
\* What validate_open_close__old never touches.
not_old_vars == <<earlier_vars, split_vars, load_vars,
                  cmd_pc, cmdloop_calls, cmd_stdout,
                  report, render_args, render_ret, render_calls, outfiles>>
\* What the command loop never touches.
not_cmd_vars == <<earlier_vars, split_vars, load_vars, old_entries, old_result,
                  report, render_args, render_ret, render_calls, outfiles>>
\* What Report.render never touches.
not_report_vars == <<earlier_vars, split_vars, load_vars, old_entries,
                     old_result, cmd_pc, cmdloop_calls, cmd_stdout>>

vars == <<earlier_vars, later_vars>>

NoCall == [op |-> "", base_quote |-> <<>>, date |-> <<>>,
           target_currency |-> "", amount_ |-> <<>>]

Call(op, base_quote, date, target_currency, amount_) ==
    [op |-> op, base_quote |-> base_quote, date |-> date,
     target_currency |-> target_currency, amount_ |-> amount_]

\* What callers look up: any pair of currencies, the quote possibly None.
QueriedPairs == Currencies \X (Currencies \cup {NoCurrency})
QueriedDates == {<<>>} \cup {<<d>> : d \in Dates}
QueriedAmounts == {Amount(n, c) : n \in Numbers, c \in Currencies}

PriceInit ==
    /\ entries = <<>>
    /\ pc = "input"
    /\ price_map = <<>>
    /\ forward_pairs = {}
    /\ call = NoCall
    /\ ret = Returned(<<>>)

BookingInit ==
    /\ ledger = <<>>
    /\ vpc = "input"
    /\ entry_index = 1
    /\ posting_index = 1
    /\ balances = <<>>
    /\ errors = <<>>

OpenCloseInit ==
    /\ oc_entries = <<>>
    /\ oc_pc = "input"
    /\ oc_index = 1
    /\ open_map = <<>>
    /\ close_map = <<>>
    /\ oc_errors = <<>>

\* A parsed statement, by the clauses of the grammar; a clause that is not
\* given is <<>>.
Statement(kind, distinct, targets, from_, where, group_by, order_by, limit) ==
    [kind |-> kind, distinct |-> distinct, targets |-> targets,
     from_ |-> from_, where |-> where, group_by |-> group_by,
     order_by |-> order_by, limit |-> limit]

ShellInit ==
    /\ sh_pc = "loading"
    /\ sh_entries = <<>>
    /\ sh_options = <<>>
    /\ statement = Statement("", FALSE, <<>>, <<>>, <<>>, <<>>, <<>>, <<>>)
    /\ handled = 0
    /\ calls = <<>>
    /\ result_rows = <<>>
    /\ printed_entries = <<>>

FifoInit ==
    /\ fifo_postings = <<>>
    /\ fifo_pc = "input"
    /\ fifo_index = 1
    /\ pending_lots = <<>>
    /\ new_postings = <<>>
    /\ fifo_errors = <<>>

SplitInit ==
    /\ split_entries = <<>>
    /\ split_config = <<>>
    /\ split_result = <<>>

LoadInit ==
    /\ load_pc = "parse"
    /\ load_entries = <<>>
    /\ load_errors = <<>>
    /\ load_plugins = <<>>
    /\ plugin_index = 1
    /\ valid_errors = <<>>
    /\ load_ret = <<>>

\* Before validate_open_close__old is called, on entry to cmdloop, and
\* before a report is made.
LaterInit ==
    /\ old_entries = <<>>
    /\ old_result = <<>>
    /\ cmd_pc = "prompt"
    /\ cmdloop_calls = 1
    /\ cmd_stdout = <<>>
    /\ report = <<>>
    /\ render_args = <<>>
    /\ render_ret = <<>>
    /\ render_calls = <<>>
    /\ outfiles = [file |-> "", StringIO |-> ""]

Init ==
    /\ PriceInit /\ BookingInit /\ OpenCloseInit /\ ShellInit /\ FifoInit
    /\ SplitInit /\ LoadInit /\ LaterInit

AddEntry(max) ==
    /\ pc = "input"
    /\ Len(entries) < max
    /\ \E entry \in NewEntries(Len(entries) + 1) :
          entries' = Append(entries, entry)
    /\ UNCHANGED <<pc, price_map, forward_pairs, call, ret>>
    /\ UNCHANGED not_price_vars

BuildPriceMap ==
    /\ pc = "input"
    /\ \E inversed \in KeyOrders(inversed_units(
                                    collect_prices(price_entries(entries)))) :
          LET built == build_price_map(entries, inversed) IN
          /\ price_map' = built.price_map
          /\ forward_pairs' = built.forward_pairs
    /\ pc' = "built"
    /\ UNCHANGED <<entries, call, ret>>
    /\ UNCHANGED not_price_vars

Query(made, returned) ==
    /\ pc = "built"
    /\ call' = made
    /\ ret' = returned
    /\ pc' = "queried"
    /\ UNCHANGED <<entries, price_map, forward_pairs>>
    /\ UNCHANGED not_price_vars

GetAllPrices ==
    \E base_quote \in QueriedPairs :
        Query(Call("get_all_prices", base_quote, <<>>, "", <<>>),
              get_all_prices(price_map, base_quote))

GetLatestPrice ==
    \E base_quote \in QueriedPairs :
        Query(Call("get_latest_price", base_quote, <<>>, "", <<>>),
              get_latest_price(price_map, base_quote))

GetPrice ==
    \E base_quote \in QueriedPairs, date \in QueriedDates :
        Query(Call("get_price", base_quote, date, "", <<>>),
              get_price(price_map, base_quote, date))

ConvertAmount ==
    \E target_currency \in Currencies, amount_ \in QueriedAmounts :
        Query(Call("convert_amount", <<>>, <<>>, target_currency, <<amount_>>),
              convert_amount(price_map, target_currency, amount_))

GetLastPriceEntries ==
    \E date \in QueriedDates :
        Query(Call("get_last_price_entries", <<>>, date, "", <<>>),
              Returned(get_last_price_entries(entries, date)))

\* Building the price map.
NextPrices == AddEntry(MaxEntries) \/ BuildPriceMap

SpecPrices == Init /\ [][NextPrices]_vars

\* Building the price map and querying it.
NextLookup ==
    \/ AddEntry(MaxLookupEntries)
    \/ BuildPriceMap
    \/ GetAllPrices
    \/ GetLatestPrice
    \/ GetPrice
    \/ ConvertAmount
    \/ GetLastPriceEntries

SpecLookup == Init /\ [][NextLookup]_vars

(***************************************************************************)
(* validate_inventory_booking                                              *)
(***************************************************************************)
Accounts == {"Assets:Broker", "Assets:Bank"}
\* Lots, each a currency held at a cost.
Lots == {"GOOG {500 USD}", "GOOG {510 USD}"}
\* Units that a posting adds to its lot.
Units == {1, 0 - 1, 0 - 2}

Position(lot, number) == [lot |-> lot, number |-> number]

\* posting.entry is the index of the transaction the parser put it in.
Posting(entry, account, position) ==
    [entry |-> entry, account |-> account, position |-> position]

Transaction(fileloc, postings) ==
    [kind |-> "Transaction", fileloc |-> fileloc, postings |-> postings]

\* A directive that is not a transaction.
Directive(fileloc) == [kind |-> "Open", fileloc |-> fileloc, postings |-> <<>>]

ValidationError(fileloc, message, entry) ==
    [fileloc |-> fileloc, message |-> message, entry |-> entry]

\* Inventory.add_position: the units of the lot change by the number of the
\* position; a lot left with no units is dropped; a lot that would be left
\* with less than none raises ValueError, unless negatives are allowed, and
\* the inventory stays as it was.
add_position(inventory, position, allow_negative) ==
    LET held  == IF position.lot \in DOMAIN inventory
                 THEN inventory[position.lot] ELSE 0
        after == held + position.number
    IN IF ~allow_negative /\ after < 0
       THEN [exc |-> "ValueError", inventory |-> inventory]
       ELSE [exc |-> "",
             inventory |->
                 [lot \in (DOMAIN inventory \cup {position.lot})
                              \ (IF after = 0 THEN {position.lot} ELSE {}) |->
                     IF lot = position.lot THEN after ELSE inventory[lot]]]

\* One running inventory for the whole ledger.
running_balance_of_the_ledger(account) ==
    IF balances = <<>> THEN <<>>
    ELSE balances[CHOOSE held \in DOMAIN balances : TRUE]

\* balances[account] of a defaultdict(Inventory).
running_balance_of(account) ==
    IF account \in DOMAIN balances THEN balances[account] ELSE <<>>

CountPostings(list) ==
    LET RECURSIVE Sum(_)
        Sum(i) == IF i = 0 THEN 0 ELSE Len(list[i].postings) + Sum(i - 1)
    IN Sum(Len(list))

NewTransaction ==
    /\ vpc = "input"
    /\ Len(ledger) < MaxDirectives
    /\ ledger' = Append(ledger, Transaction(Len(ledger) + 1, <<>>))
    /\ UNCHANGED <<vpc, entry_index, posting_index, balances, errors>>
    /\ UNCHANGED not_booking_vars

NewDirective ==
    /\ vpc = "input"
    /\ Len(ledger) < MaxDirectives
    /\ ledger' = Append(ledger, Directive(Len(ledger) + 1))
    /\ UNCHANGED <<vpc, entry_index, posting_index, balances, errors>>
    /\ UNCHANGED not_booking_vars

\* One more posting in the transaction that the parser is reading.
NewPosting ==
    /\ vpc = "input"
    /\ ledger # <<>>
    /\ ledger[Len(ledger)].kind = "Transaction"
    /\ CountPostings(ledger) < MaxPostings
    /\ \E account \in Accounts, lot \in Lots, number \in Units :
          ledger' = [ledger EXCEPT ![Len(ledger)].postings =
                        Append(@, Posting(Len(ledger), account,
                                          Position(lot, number)))]
    /\ UNCHANGED <<vpc, entry_index, posting_index, balances, errors>>
    /\ UNCHANGED not_booking_vars

\* validate_inventory_booking(ledger) is called.
StartValidation ==
    /\ vpc = "input"
    /\ vpc' = "running"
    /\ entry_index' = 1
    /\ posting_index' = 1
    /\ balances' = <<>>
    /\ errors' = <<>>
    /\ UNCHANGED ledger
    /\ UNCHANGED not_booking_vars

\* `if not isinstance(entry, data.Transaction): continue`
SkipDirective ==
    /\ vpc = "running"
    /\ entry_index <= Len(ledger)
    /\ ledger[entry_index].kind # "Transaction"
    /\ entry_index' = entry_index + 1
    /\ UNCHANGED <<ledger, vpc, posting_index, balances, errors>>
    /\ UNCHANGED not_booking_vars

\* The pass aborted at the first posting that cannot be booked.
ApplyPosting_aborting ==
    /\ vpc = "running"
    /\ entry_index <= Len(ledger)
    /\ ledger[entry_index].kind = "Transaction"
    /\ posting_index <= Len(ledger[entry_index].postings)
    /\ LET posting == ledger[entry_index].postings[posting_index]
           added   == add_position(running_balance_of(posting.account),
                                   posting.position, FALSE)
       IN /\ balances' = Put(balances, posting.account, added.inventory)
          /\ IF added.exc = "ValueError"
             THEN /\ errors' = Append(errors,
                                   ValidationError(ledger[posting.entry].fileloc,
                                                   added.exc, posting.entry))
                  /\ vpc' = "done"
             ELSE UNCHANGED <<errors, vpc>>
    /\ posting_index' = posting_index + 1
    /\ UNCHANGED <<ledger, entry_index>>
    /\ UNCHANGED not_booking_vars

\* The posting booked with negative units allowed.
ApplyPosting_allowing_negative ==
    /\ vpc = "running"
    /\ entry_index <= Len(ledger)
    /\ ledger[entry_index].kind = "Transaction"
    /\ posting_index <= Len(ledger[entry_index].postings)
    /\ LET posting == ledger[entry_index].postings[posting_index]
           added   == add_position(running_balance_of(posting.account),
                                   posting.position, TRUE)
       IN /\ balances' = Put(balances, posting.account, added.inventory)
          /\ errors' = IF added.exc = "ValueError"
                       THEN Append(errors,
                                   ValidationError(ledger[posting.entry].fileloc,
                                                   added.exc, posting.entry))
                       ELSE errors
    /\ posting_index' = posting_index + 1
    /\ UNCHANGED <<ledger, vpc, entry_index>>
    /\ UNCHANGED not_booking_vars

\* One pass of the inner loop: the posting is added to the running balance
\* of its account, and a ValueError becomes an error of the list.
ApplyPosting ==
    /\ vpc = "running"
    /\ entry_index <= Len(ledger)
    /\ ledger[entry_index].kind = "Transaction"
    /\ posting_index <= Len(ledger[entry_index].postings)
    /\ LET posting == ledger[entry_index].postings[posting_index]
           added   == add_position(running_balance_of(posting.account),
                                   posting.position, FALSE)
       IN /\ balances' = Put(balances, posting.account, added.inventory)
          /\ errors' = IF added.exc = "ValueError"
                       THEN Append(errors,
                                   ValidationError(ledger[posting.entry].fileloc,
                                                   added.exc, posting.entry))
                       ELSE errors
    /\ posting_index' = posting_index + 1
    /\ UNCHANGED <<ledger, vpc, entry_index>>
    /\ UNCHANGED not_booking_vars

\* The inner loop is through: the outer loop takes the next directive.
NextEntry ==
    /\ vpc = "running"
    /\ entry_index <= Len(ledger)
    /\ ledger[entry_index].kind = "Transaction"
    /\ posting_index > Len(ledger[entry_index].postings)
    /\ entry_index' = entry_index + 1
    /\ posting_index' = 1
    /\ UNCHANGED <<ledger, vpc, balances, errors>>
    /\ UNCHANGED not_booking_vars

\* `return errors`
ReturnErrors ==
    /\ vpc = "running"
    /\ entry_index > Len(ledger)
    /\ vpc' = "done"
    /\ UNCHANGED <<ledger, entry_index, posting_index, balances, errors>>
    /\ UNCHANGED not_booking_vars

NextBooking ==
    \/ NewTransaction
    \/ NewDirective
    \/ NewPosting
    \/ StartValidation
    \/ SkipDirective
    \/ ApplyPosting
    \/ NextEntry
    \/ ReturnErrors

SpecBooking == Init /\ [][NextBooking]_vars

(***************************************************************************)
(* validate_open_close                                                     *)
(***************************************************************************)
\* Directives of data, by their fields; a directive of oc_entries is named
\* by its place in the list wherever the code holds a reference to it.
Open(fileloc, date, account) ==
    [kind |-> "Open", fileloc |-> fileloc, date |-> date, account |-> account]

Close(fileloc, date, account) ==
    [kind |-> "Close", fileloc |-> fileloc, date |-> date, account |-> account]

\* A directive that is neither an Open nor a Close; the loop reads nothing
\* of it but its type.
Balance(fileloc) == [kind |-> "Balance", fileloc |-> fileloc]

\* An error message, "<text> {}".format(entry.account), is the text and the
\* account.
\* One more directive in the list that the loader hands over.
NewOpenClose ==
    /\ oc_pc = "input"
    /\ Len(oc_entries) < MaxOpenClose
    /\ LET fileloc == Len(oc_entries) + 1 IN
       \E entry \in {Open(fileloc, date, account) :
                         date \in Dates, account \in Accounts}
                 \cup {Close(fileloc, date, account) :
                         date \in Dates, account \in Accounts}
                 \cup {Balance(fileloc)} :
          oc_entries' = Append(oc_entries, entry)
    /\ UNCHANGED <<oc_pc, oc_index, open_map, close_map, oc_errors>>
    /\ UNCHANGED not_open_close_vars

\* validate_open_close(oc_entries) is called.
StartOpenClose ==
    /\ oc_pc = "input"
    /\ oc_pc' = "running"
    /\ oc_index' = 1
    /\ open_map' = <<>>
    /\ close_map' = <<>>
    /\ oc_errors' = <<>>
    /\ UNCHANGED oc_entries
    /\ UNCHANGED not_open_close_vars

\* The Open that comes later is the one recorded.
OnOpen_last_recorded ==
    /\ oc_pc = "running"
    /\ oc_index <= Len(oc_entries)
    /\ oc_entries[oc_index].kind = "Open"
    /\ LET entry == oc_entries[oc_index] IN
       /\ oc_errors' = IF entry.account \in DOMAIN open_map
                        THEN Append(oc_errors,
                                    ValidationError(entry.fileloc,
                                        <<"Duplicate open directive for {}.", entry.account>>,
                                        oc_index))
                        ELSE oc_errors
       /\ open_map' = Put(open_map, entry.account, oc_index)
    /\ oc_index' = oc_index + 1
    /\ UNCHANGED <<oc_entries, oc_pc, close_map>>
    /\ UNCHANGED not_open_close_vars

\* `if isinstance(entry, Open):`
OnOpen ==
    /\ oc_pc = "running"
    /\ oc_index <= Len(oc_entries)
    /\ oc_entries[oc_index].kind = "Open"
    /\ LET entry == oc_entries[oc_index] IN
       IF entry.account \in DOMAIN open_map
       THEN /\ oc_errors' = Append(oc_errors,
                                   ValidationError(entry.fileloc,
                                       <<"Duplicate open directive for {}.", entry.account>>,
                                       oc_index))
            /\ UNCHANGED open_map
       ELSE /\ open_map' = Put(open_map, entry.account, oc_index)
            /\ UNCHANGED oc_errors
    /\ oc_index' = oc_index + 1
    /\ UNCHANGED <<oc_entries, oc_pc, close_map>>
    /\ UNCHANGED not_open_close_vars

\* A Close on the date of the Open passes.
OnClose_same_date_passes ==
    /\ oc_pc = "running"
    /\ oc_index <= Len(oc_entries)
    /\ oc_entries[oc_index].kind = "Close"
    /\ LET entry == oc_entries[oc_index] IN
       IF entry.account \in DOMAIN close_map
       THEN /\ oc_errors' = Append(oc_errors,
                                   ValidationError(entry.fileloc,
                                       <<"Duplicate close directive for {}.", entry.account>>,
                                       oc_index))
            /\ UNCHANGED close_map
       ELSE /\ oc_errors' =
                  IF entry.account \in DOMAIN open_map
                  THEN LET open_entry == oc_entries[open_map[entry.account]] IN
                       IF entry.date < open_entry.date
                       THEN Append(oc_errors,
                                   ValidationError(entry.fileloc,
                              <<"Internal error: closing date for {} appears before opening date.",
                                entry.account>>,
                                       oc_index))
                       ELSE oc_errors
                  ELSE Append(oc_errors,
                              ValidationError(entry.fileloc,
                                  <<"Unopened account {}is being closed.", entry.account>>,
                                  oc_index))
            /\ close_map' = Put(close_map, entry.account, oc_index)
    /\ oc_index' = oc_index + 1
    /\ UNCHANGED <<oc_entries, oc_pc, open_map>>
    /\ UNCHANGED not_open_close_vars

\* `elif isinstance(entry, Close):`; open_map[entry.account] raises KeyError
\* when no Open of the account has been recorded.
OnClose ==
    /\ oc_pc = "running"
    /\ oc_index <= Len(oc_entries)
    /\ oc_entries[oc_index].kind = "Close"
    /\ LET entry == oc_entries[oc_index] IN
       IF entry.account \in DOMAIN close_map
       THEN /\ oc_errors' = Append(oc_errors,
                                   ValidationError(entry.fileloc,
                                       <<"Duplicate close directive for {}.", entry.account>>,
                                       oc_index))
            /\ UNCHANGED close_map
       ELSE /\ oc_errors' =
                  IF entry.account \in DOMAIN open_map
                  THEN LET open_entry == oc_entries[open_map[entry.account]] IN
                       IF entry.date <= open_entry.date
                       THEN Append(oc_errors,
                                   ValidationError(entry.fileloc,
                              <<"Internal error: closing date for {} appears before opening date.",
                                entry.account>>,
                                       oc_index))
                       ELSE oc_errors
                  ELSE Append(oc_errors,
                              ValidationError(entry.fileloc,
                                  <<"Unopened account {}is being closed.", entry.account>>,
                                  oc_index))
            /\ close_map' = Put(close_map, entry.account, oc_index)
    /\ oc_index' = oc_index + 1
    /\ UNCHANGED <<oc_entries, oc_pc, open_map>>
    /\ UNCHANGED not_open_close_vars

\* A directive of another kind: neither branch of the loop body is taken.
OnOtherDirective ==
    /\ oc_pc = "running"
    /\ oc_index <= Len(oc_entries)
    /\ oc_entries[oc_index].kind \notin {"Open", "Close"}
    /\ oc_index' = oc_index + 1
    /\ UNCHANGED <<oc_entries, oc_pc, open_map, close_map, oc_errors>>
    /\ UNCHANGED not_open_close_vars

\* `return errors`
ReturnOpenCloseErrors ==
    /\ oc_pc = "running"
    /\ oc_index > Len(oc_entries)
    /\ oc_pc' = "done"
    /\ UNCHANGED <<oc_entries, oc_index, open_map, close_map, oc_errors>>
    /\ UNCHANGED not_open_close_vars

NextOpenClose ==
    \/ NewOpenClose
    \/ StartOpenClose
    \/ OnOpen
    \/ OnClose
    \/ OnOtherDirective
    \/ ReturnOpenCloseErrors

SpecOpenClose == Init /\ [][NextOpenClose]_vars

(***************************************************************************)
(* The query language: statements, the compiler and the executor.          *)
(***************************************************************************)
\* Target expressions: a column, or the aggregate SUM of a column.
Column(name) == [fn |-> "", column |-> name]
Sum(name) == [fn |-> "sum", column |-> name]

is_aggregate(c_expr) == c_expr.fn # ""

\* ORDER BY the n-th target, ascending unless DESC is given.
OrderBy(index, descending) == [index |-> index, descending |-> descending]

\* SELECT statements: a target list, with or without GROUP BY, ORDER BY and
\* LIMIT; DISTINCT is tried on the one-column target list, where rows
\* repeat.
SelectStatements ==
    LET TargetLists == {<<Column("account")>>,
                        <<Column("number"), Column("account")>>,
                        <<Column("account"), Sum("number")>>,
                        <<Sum("number")>>,
                        <<Column("nope")>>}
        OrderBys    == {<<>>, <<OrderBy(1, FALSE)>>, <<OrderBy(1, TRUE)>>}
        Limits      == {<<>>} \cup {<<n>> : n \in 1..MaxLimit}
    IN {Statement("Select", FALSE, targets, <<>>, <<>>, group_by, order_by, limit) :
           targets \in TargetLists, group_by \in {<<>>, <<"account">>},
           order_by \in OrderBys, limit \in Limits}
       \cup
       {Statement("Select", TRUE, <<Column("account")>>, <<>>, <<>>, <<>>,
                  order_by, limit) :
           order_by \in OrderBys, limit \in Limits}

\* The SELECT that a JOURNAL or a BALANCES statement stands for.
transform_journal(journal) ==
    Statement("Select", FALSE, <<Column("number"), Column("account")>>,
              journal.from_, journal.where, <<>>, <<>>, <<>>)

transform_balances(balances_) ==
    Statement("Select", FALSE, <<Column("account"), Sum("number")>>,
              balances_.from_, <<>>, <<"account">>, <<OrderBy(1, FALSE)>>, <<>>)

\* The rule of GROUP BY dropped: any mix of targets compiles.
NotCovered_never(targets, group_by) == FALSE

\* A bare column stands beside an aggregate and is not a GROUP BY key.
NotCovered(targets, group_by) ==
    /\ \E i \in DOMAIN targets : is_aggregate(targets[i])
    /\ \E i \in DOMAIN targets :
          /\ ~is_aggregate(targets[i])
          /\ \A j \in DOMAIN group_by : group_by[j] # targets[i].column

\* A SELECT compiles when every column and function of its clauses is bound
\* in the environment of the clause, ORDER BY names a target, and the rule
\* of GROUP BY holds; there is no compiled query otherwise.
compile_select(select, targets_environ, postings_environ, entries_environ) ==
    LET Bound(names, environ) ==
            \A i \in DOMAIN names : names[i] \in environ.columns
    IN IF \/ ~Bound([i \in DOMAIN select.targets |-> select.targets[i].column],
                    targets_environ)
          \/ \E i \in DOMAIN select.targets :
                /\ is_aggregate(select.targets[i])
                /\ select.targets[i].fn \notin targets_environ.functions
          \/ ~Bound([i \in DOMAIN select.from_ |-> select.from_[i].column],
                    entries_environ)
          \/ ~Bound(select.group_by, postings_environ)
          \/ \E i \in DOMAIN select.order_by :
                select.order_by[i].index \notin DOMAIN select.targets
          \/ NotCovered(select.targets, select.group_by)
       THEN Raised("CompilationError")
       ELSE Returned([c_targets |-> select.targets,
                      c_from     |-> select.from_,
                      c_where    |-> select.where,
                      group_by   |-> select.group_by,
                      order_by   |-> select.order_by,
                      limit      |-> select.limit,
                      distinct   |-> select.distinct])

\* query_compile.compile: a PRINT statement is compiled against the one
\* environment it is given, the others against the three of a SELECT.
compile(statement_, targets_environ, postings_environ, entries_environ) ==
    CASE statement_.kind = "Print" ->
            IF \A i \in DOMAIN statement_.from_ :
                  statement_.from_[i].column \in targets_environ.columns
            THEN Returned([c_from |-> statement_.from_])
            ELSE Raised("CompilationError")
      [] statement_.kind = "Journal" ->
            compile_select(transform_journal(statement_), targets_environ,
                           postings_environ, entries_environ)
      [] statement_.kind = "Balances" ->
            compile_select(transform_balances(statement_), targets_environ,
                           postings_environ, entries_environ)
      [] OTHER ->
            compile_select(statement_, targets_environ, postings_environ,
                           entries_environ)

\* Step 1: the directives that pass the FROM clause, `column = value`.
filter_entries(c_from, entries_) ==
    SelectSeq(entries_,
              LAMBDA entry : \A i \in DOMAIN c_from : entry.kind = c_from[i].value)

\* Steps 2 to 6: the postings of the directives that pass FROM and WHERE;
\* the groups in the order their keys are first seen, one row each, an
\* aggregate folded over the rows of the group and a bare column read off
\* its first row; one group of all rows for aggregates without GROUP BY;
\* one row for each posting otherwise; with DISTINCT, each row kept where
\* it first occurs.
Rows(c_query, entries_) ==
    LET RECURSIVE Flatten(_)
        Flatten(list) ==
            IF list = <<>> THEN <<>>
            ELSE Head(list).postings \o Flatten(Tail(list))
        EvalColumn(name, posting) ==
            IF name = "account" THEN posting.account
            ELSE posting.position.number
        RECURSIVE Dedupe(_)
        Dedupe(seq) ==
            IF seq = <<>> THEN <<>>
            ELSE LET init == Dedupe(SubSeq(seq, 1, Len(seq) - 1))
                     last == seq[Len(seq)]
                 IN IF \E i \in DOMAIN init : init[i] = last
                    THEN init ELSE Append(init, last)
        RECURSIVE SumOf(_, _)
        SumOf(name, group) ==
            IF group = <<>> THEN 0
            ELSE EvalColumn(name, Head(group)) + SumOf(name, Tail(group))
        ProjectGroup(group) ==
            [i \in DOMAIN c_query.c_targets |->
                IF is_aggregate(c_query.c_targets[i])
                THEN SumOf(c_query.c_targets[i].column, group)
                ELSE EvalColumn(c_query.c_targets[i].column, group[1])]
        GroupKey(posting) ==
            [i \in DOMAIN c_query.group_by |->
                EvalColumn(c_query.group_by[i], posting)]
        postings ==
            SelectSeq(Flatten(filter_entries(c_query.c_from, entries_)),
                      LAMBDA posting :
                         \A i \in DOMAIN c_query.c_where :
                            posting.account = c_query.c_where[i])
        keys == Dedupe([i \in DOMAIN postings |-> GroupKey(postings[i])])
        projected ==
            IF c_query.group_by # <<>>
            THEN [k \in DOMAIN keys |->
                     ProjectGroup(SelectSeq(postings,
                         LAMBDA posting : GroupKey(posting) = keys[k]))]
            ELSE IF \E i \in DOMAIN c_query.c_targets :
                       is_aggregate(c_query.c_targets[i])
            THEN IF postings = <<>> THEN <<>> ELSE <<ProjectGroup(postings)>>
            ELSE [k \in DOMAIN postings |-> ProjectGroup(<<postings[k]>>)]
    IN IF c_query.distinct THEN Dedupe(projected) ELSE projected

\* The sort key of a row: the value of the target that ORDER BY names, an
\* account name by its place in the order of strings.
SortKey(c_targets, order, row) ==
    LET target == c_targets[order.index] IN
    IF ~is_aggregate(target) /\ target.column = "account"
    THEN (IF row[order.index] = "Assets:Bank" THEN 1 ELSE 2)
    ELSE row[order.index]

\* Step 7: a stable sort by the ORDER BY key; each row is put behind every
\* row that does not sort after it.
RECURSIVE Ordered(_, _, _)
Ordered(rows, c_targets, order_by) ==
    LET RECURSIVE InsertRow(_, _)
        InsertRow(sorted, row) ==
            IF sorted = <<>> THEN <<row>>
            ELSE LET last == sorted[Len(sorted)]
                     a    == SortKey(c_targets, order_by[1], last)
                     b    == SortKey(c_targets, order_by[1], row)
                 IN IF (IF order_by[1].descending THEN a >= b ELSE a <= b)
                    THEN Append(sorted, row)
                    ELSE Append(InsertRow(SubSeq(sorted, 1, Len(sorted) - 1),
                                          row), last)
    IN IF order_by = <<>> \/ rows = <<>> THEN rows
       ELSE InsertRow(Ordered(SubSeq(rows, 1, Len(rows) - 1), c_targets,
                              order_by),
                      rows[Len(rows)])

\* Step 8: the first rows, as many as LIMIT says.
Limited(rows, limit) ==
    IF limit = <<>> \/ Len(rows) <= limit[1] THEN rows
    ELSE SubSeq(rows, 1, limit[1])

\* The rows are cut to the LIMIT before they are put in order.
execute_query_limit_first(c_query, entries_, options_map) ==
    Ordered(Limited(Rows(c_query, entries_), c_query.limit),
            c_query.c_targets, c_query.order_by)

\* query_execute.execute_query: the rows of the result.
execute_query(c_query, entries_, options_map) ==
    Limited(Ordered(Rows(c_query, entries_), c_query.c_targets,
                    c_query.order_by),
            c_query.limit)

\* query_execute.execute_print: the directives written to the file.
execute_print(c_print, entries_, options_map) ==
    filter_entries(c_print.c_from, entries_)

(***************************************************************************)
(* BQLShell                                                                *)
(***************************************************************************)
\* One more directive of the ledger the shell is started on: an Open, or a
\* transaction of one posting.
LoadShellEntry ==
    /\ sh_pc = "loading"
    /\ Len(sh_entries) < MaxShellEntries
    /\ LET fileloc == Len(sh_entries) + 1 IN
       \E entry \in {Directive(fileloc)}
                 \cup {Transaction(fileloc,
                           <<Posting(fileloc, posting[1],
                                     Position("GOOG {500 USD}", posting[2]))>>) :
                         posting \in {<<"Assets:Bank", 1>>, <<"Assets:Broker", 1>>,
                                      <<"Assets:Broker", 2>>}} :
          sh_entries' = Append(sh_entries, entry)
    /\ UNCHANGED <<sh_pc, sh_options, statement, handled, calls, result_rows,
                   printed_entries>>
    /\ UNCHANGED not_shell_vars

\* The environments of the shell: the columns and the aggregate functions
\* that TargetsEnvironment, FilterEntriesEnvironment and
\* FilterPostingsEnvironment know.
env_targets == [columns |-> {"account", "number"}, functions |-> {"sum"}]
env_entries == [columns |-> {"type"}, functions |-> {}]
env_postings == [columns |-> {"account", "number"}, functions |-> {}]

\* BQLShell(is_interactive, entries, errors, options_map)
BQLShell_init ==
    /\ sh_pc = "loading"
    /\ sh_pc' = "ready"
    /\ sh_options' = [name_assets |-> "Assets"]
    /\ UNCHANGED <<sh_entries, statement, handled, calls, result_rows,
                   printed_entries>>
    /\ UNCHANGED not_shell_vars

\* The handler goes on to execute_print after it has printed the error.
on_Print_no_return(print_stmt) ==
    LET c_print == compile(print_stmt, env_entries, <<>>, <<>>) IN
    /\ IF c_print.exc = "CompilationError"
       THEN /\ calls' = <<"compile", "print ERROR", "get_pager", "execute_print">>
            /\ printed_entries' = sh_entries
       ELSE /\ calls' = <<"compile", "get_pager", "execute_print">>
            /\ printed_entries' = execute_print(c_print.val, sh_entries, sh_options)
    /\ result_rows' = <<>>
    /\ UNCHANGED <<sh_pc, sh_entries, sh_options>>

on_Print(print_stmt) ==
    LET c_print == compile(print_stmt, env_entries, <<>>, <<>>) IN
    /\ IF c_print.exc = "CompilationError"
       THEN /\ calls' = <<"compile", "print ERROR">>
            /\ printed_entries' = <<>>
       ELSE /\ calls' = <<"compile", "get_pager", "execute_print">>
            /\ printed_entries' = execute_print(c_print.val, sh_entries, sh_options)
    /\ result_rows' = <<>>
    /\ UNCHANGED <<sh_pc, sh_entries, sh_options>>

\* What on_Select calls once it has the rows.
Rendering(rows) ==
    IF rows = <<>> THEN <<"print (empty)">> ELSE <<"get_pager", "render_text">>

\* Executing the query takes the directives out of the shell's list.
on_Select_consuming(statement_) ==
    LET c_query == compile(statement_, env_targets, env_postings, env_entries) IN
    /\ IF c_query.exc = "CompilationError"
       THEN /\ calls' = <<"compile", "print ERROR">>
            /\ result_rows' = <<>>
            /\ UNCHANGED sh_entries
       ELSE /\ result_rows' = execute_query(c_query.val, sh_entries, sh_options)
            /\ calls' = <<"compile", "execute_query">> \o Rendering(result_rows')
            /\ sh_entries' = <<>>
    /\ printed_entries' = <<>>
    /\ UNCHANGED <<sh_pc, sh_options>>

on_Select(statement_) ==
    LET c_query == compile(statement_, env_targets, env_postings, env_entries) IN
    /\ IF c_query.exc = "CompilationError"
       THEN /\ calls' = <<"compile", "print ERROR">>
            /\ result_rows' = <<>>
       ELSE /\ result_rows' = execute_query(c_query.val, sh_entries, sh_options)
            /\ calls' = <<"compile", "execute_query">> \o Rendering(result_rows')
    /\ printed_entries' = <<>>
    /\ UNCHANGED <<sh_pc, sh_entries, sh_options>>

\* The statement compiled against the environment of directives alone.
on_Journal_entries_environment(journal) ==
    LET c_query == compile(journal, env_entries, env_entries, env_entries) IN
    /\ IF c_query.exc = "CompilationError"
       THEN /\ calls' = <<"compile", "print ERROR">>
            /\ result_rows' = <<>>
       ELSE /\ result_rows' = execute_query(c_query.val, sh_entries, sh_options)
            /\ calls' = <<"compile", "execute_query">> \o Rendering(result_rows')
    /\ printed_entries' = <<>>
    /\ UNCHANGED <<sh_pc, sh_entries, sh_options>>

on_Journal(journal) == on_Select(journal)

on_Balances(balance) == on_Select(balance)

\* dispatch: the handler named after the type of the statement.
dispatch(statement_) ==
    /\ sh_pc = "ready"
    /\ handled < MaxStatements
    /\ handled' = handled + 1
    /\ statement' = statement_
    /\ CASE statement_.kind = "Select"   -> on_Select(statement_)
         [] statement_.kind = "Journal"  -> on_Journal(statement_)
         [] statement_.kind = "Balances" -> on_Balances(statement_)
         [] statement_.kind = "Print"    -> on_Print(statement_)
    /\ UNCHANGED not_shell_vars

\* The statements typed in a session: any statement first; then the same
\* SELECT again, or any JOURNAL, BALANCES or PRINT.
Select ==
    \E statement_ \in SelectStatements :
       /\ handled = 0 \/ statement_ = statement
       /\ dispatch(statement_)

Journal ==
    \E statement_ \in
          {Statement("Journal", FALSE, <<>>, <<>>, <<account>>, <<>>, <<>>, <<>>) :
              account \in Accounts} :
       /\ handled < MaxStatements
       /\ dispatch(statement_)

Balances ==
    \E statement_ \in
          {Statement("Balances", FALSE, <<>>, <<>>, <<>>, <<>>, <<>>, <<>>)} :
       /\ handled < MaxStatements
       /\ dispatch(statement_)

Print_ ==
    \E statement_ \in
          {Statement("Print", FALSE, <<>>, from_, <<>>, <<>>, <<>>, <<>>) :
              from_ \in {<<>>, <<[column |-> "type", value |-> "Transaction"]>>,
                               <<[column |-> "nope", value |-> "Transaction"]>>}} :
       /\ handled < MaxStatements
       /\ dispatch(statement_)

NextShell ==
    \/ LoadShellEntry
    \/ BQLShell_init
    \/ Select
    \/ Journal
    \/ Balances
    \/ Print_

SpecShell == Init /\ [][NextShell]_vars

(***************************************************************************)
(* The FIFO plugin, on the account it is configured for.                   *)
(***************************************************************************)
\* A posting of the ledger, `units BTC @ price USD`, each in its own
\* transaction; units below zero reduce the account.  The numbers are those
\* of test_fifo_split_reducing and the failure tests, in whole units.
FifoPostings ==
    {[units |-> units, price |-> price] :
        units \in {2, 0 - 1, 0 - 2, 0 - 3}, price \in {250, 260}}

\* A posting of the output, `units BTC {cost USD} @ price USD`.
AtCost(units, cost, price) == [units |-> units, cost |-> cost, price |-> price]

\* The units of the lots.
RECURSIVE Held(_)
Held(lots) == IF lots = <<>> THEN 0 ELSE Head(lots).units + Held(Tail(lots))

\* The units are taken off the lot acquired last, then the one before.
RECURSIVE MatchNewestFirst(_, _, _)
MatchNewestFirst(lots, number, price) ==
    IF number = 0 THEN [postings |-> <<>>, lots |-> lots]
    ELSE LET lot   == lots[Len(lots)]
             taken == IF number < lot.units THEN number ELSE lot.units
             rest  == MatchNewestFirst(SubSeq(lots, 1, Len(lots) - 1),
                                       number - taken, price)
         IN [postings |-> <<AtCost(0 - taken, lot.cost, price)>> \o rest.postings,
             lots     |-> IF taken < lot.units
                          THEN Append(rest.lots,
                                      [lot EXCEPT !.units = @ - taken])
                          ELSE rest.lots]

\* The units are taken off the lots from the oldest on: a posting at the
\* cost of each lot taken from, and the lots that are left.
RECURSIVE Match(_, _, _)
Match(lots, number, price) ==
    IF number = 0 THEN [postings |-> <<>>, lots |-> lots]
    ELSE LET lot   == Head(lots)
             taken == IF number < lot.units THEN number ELSE lot.units
             rest  == Match(Tail(lots), number - taken, price)
         IN [postings |-> <<AtCost(0 - taken, lot.cost, price)>> \o rest.postings,
             lots     |-> IF taken < lot.units
                          THEN <<[lot EXCEPT !.units = @ - taken]>> \o rest.lots
                          ELSE rest.lots]

\* One more posting to the account in the ledger that is loaded.
NewFifoPosting ==
    /\ fifo_pc = "input"
    /\ Len(fifo_postings) < MaxFifoPostings
    /\ \E posting \in FifoPostings :
          fifo_postings' = Append(fifo_postings, posting)
    /\ UNCHANGED <<fifo_pc, fifo_index, pending_lots, new_postings, fifo_errors>>
    /\ UNCHANGED not_fifo_vars

\* The loader runs the plugin on the entries.
StartFifo ==
    /\ fifo_pc = "input"
    /\ fifo_pc' = "running"
    /\ UNCHANGED <<fifo_postings, fifo_index, pending_lots, new_postings,
                   fifo_errors>>
    /\ UNCHANGED not_fifo_vars

\* A posting that adds units: a new lot at the price paid.
Augment ==
    /\ fifo_pc = "running"
    /\ fifo_index <= Len(fifo_postings)
    /\ LET posting == fifo_postings[fifo_index] IN
       /\ posting.units > 0
       /\ pending_lots' = Append(pending_lots,
                                 [units |-> posting.units, cost |-> posting.price])
       /\ new_postings' = Append(new_postings,
                                 <<AtCost(posting.units, posting.price,
                                          posting.price)>>)
    /\ fifo_index' = fifo_index + 1
    /\ UNCHANGED <<fifo_postings, fifo_pc, fifo_errors>>
    /\ UNCHANGED not_fifo_vars

\* The lots are matched from the newest on.
Reduce_newest_first ==
    /\ fifo_pc = "running"
    /\ fifo_index <= Len(fifo_postings)
    /\ LET posting == fifo_postings[fifo_index]
           matched == MatchNewestFirst(pending_lots, 0 - posting.units,
                                       posting.price)
       IN /\ posting.units < 0
          /\ 0 - posting.units <= Held(pending_lots)
          /\ pending_lots' = matched.lots
          /\ new_postings' = Append(new_postings, matched.postings)
    /\ fifo_index' = fifo_index + 1
    /\ UNCHANGED <<fifo_postings, fifo_pc, fifo_errors>>
    /\ UNCHANGED not_fifo_vars

\* A posting that takes units the lots can give: the postings matched
\* against the lots stand for it.
Reduce ==
    /\ fifo_pc = "running"
    /\ fifo_index <= Len(fifo_postings)
    /\ LET posting == fifo_postings[fifo_index]
           matched == Match(pending_lots, 0 - posting.units, posting.price)
       IN /\ posting.units < 0
          /\ 0 - posting.units <= Held(pending_lots)
          /\ pending_lots' = matched.lots
          /\ new_postings' = Append(new_postings, matched.postings)
    /\ fifo_index' = fifo_index + 1
    /\ UNCHANGED <<fifo_postings, fifo_pc, fifo_errors>>
    /\ UNCHANGED not_fifo_vars

\* The posting is left as it is and nothing is reported.
ReduceFails_silently ==
    /\ fifo_pc = "running"
    /\ fifo_index <= Len(fifo_postings)
    /\ LET posting == fifo_postings[fifo_index] IN
       /\ posting.units < 0
       /\ 0 - posting.units > Held(pending_lots)
       /\ new_postings' = Append(new_postings, <<posting>>)
    /\ pending_lots' \in {pending_lots, <<>>}
    /\ fifo_index' = fifo_index + 1
    /\ UNCHANGED <<fifo_postings, fifo_pc, fifo_errors>>
    /\ UNCHANGED not_fifo_vars

\* A posting that takes more units than the lots hold: an error of the
\* load, and the posting left as it is.  The tests do not say what becomes
\* of the lots: they are as they were, or used up.
ReduceFails ==
    /\ fifo_pc = "running"
    /\ fifo_index <= Len(fifo_postings)
    /\ LET posting == fifo_postings[fifo_index] IN
       /\ posting.units < 0
       /\ 0 - posting.units > Held(pending_lots)
       /\ new_postings' = Append(new_postings, <<posting>>)
       /\ fifo_errors' = Append(fifo_errors,
                                [entry |-> fifo_index,
                                 message |-> "Could not match position"])
    /\ pending_lots' \in {pending_lots, <<>>}
    /\ fifo_index' = fifo_index + 1
    /\ UNCHANGED <<fifo_postings, fifo_pc>>
    /\ UNCHANGED not_fifo_vars

\* The plugin returns the new entries and its errors.
ReturnFifo ==
    /\ fifo_pc = "running"
    /\ fifo_index > Len(fifo_postings)
    /\ fifo_pc' = "done"
    /\ UNCHANGED <<fifo_postings, fifo_index, pending_lots, new_postings,
                   fifo_errors>>
    /\ UNCHANGED not_fifo_vars

NextFifo ==
    \/ NewFifoPosting
    \/ StartFifo
    \/ Augment
    \/ Reduce
    \/ ReduceFails
    \/ ReturnFifo

SpecFifo == Init /\ [][NextFifo]_vars

(***************************************************************************)
(* plugins/split_expenses.py                                               *)
(*                                                                         *)
(* A string is the sequence of its pieces: "Expenses:Alcohol" is           *)
(* <<"Expenses", ":", "Al", "cohol">> and the member name "Al" is <<"Al">>,*)
(* so that one string is part of another when its pieces are.              *)
(***************************************************************************)
\* Most entries and most postings of the list handed to the plugin, and the
\* most pieces of its configuration string.
MaxSplitEntries == 2
MaxSplitPostings == 2
MaxConfig == 3

\* The postings that stand for a posting that is split: one for each member,
\* on the member's sub-account, each with the units divided by the number of
\* members and marked as automatically calculated.
split_posting_undivided(posting, members) ==
    [m \in 1..Len(members) |->
        [posting EXCEPT !.meta = @ \cup {"__automatic__"},
                        !.account = @ \o <<":">> \o members[m]]]

split_posting(posting, members) ==
    LET split_position ==
            [posting.position EXCEPT
                !.units = Amount(DecDiv(@.number, Normalize(Len(members), 0)),
                                 @.currency)]
    IN [m \in 1..Len(members) |->
           [posting EXCEPT !.meta = @ \cup {"__automatic__"},
                           !.account = @ \o <<":">> \o members[m],
                           !.position = split_position]]

\* split_expenses(entries, options_map, config) for a configuration string:
\* what it returns, or the exception it raises. new_accounts is a set, so
\* the Open directives come in any order: the result is one of a set.
split_expenses(entries_, options_map, config) ==
    LET \* config.split()
        RECURSIVE Words(_, _, _)
        Words(i, word, words) ==
            LET closed == IF word = <<>> THEN words ELSE Append(words, word)
            IN IF i > Len(config) THEN closed
               ELSE IF config[i] = " " THEN Words(i + 1, <<>>, closed)
               ELSE Words(i + 1, Append(word, config[i]), words)
        members == Words(1, <<>>, <<>>)
        \* account_types.get_account_type: the first component.
        RECURSIVE get_account_type(_)
        get_account_type(account) ==
            IF account = <<>> \/ Head(account) = ":" THEN <<>>
            ELSE <<Head(account)>> \o get_account_type(Tail(account))
        is_expense_account(account) ==
            get_account_type(account) = <<options_map.name_expenses>>
        \* '|'.join(map(re.escape, members)): the alternatives of the
        \* pattern; with no member it is the empty pattern.
        alternatives ==
            IF members = <<>> THEN {<<>>}
            ELSE {members[m] : m \in 1..Len(members)}
        \* re.search: some alternative is found at some place.
        is_individual_account(account) ==
            \E p \in alternatives :
                \E i \in 1..(Len(account) - Len(p) + 1) :
                    SubSeq(account, i, i + Len(p) - 1) = p
        is_split(posting) ==
            /\ is_expense_account(posting.account)
            /\ ~is_individual_account(posting.account)
        RECURSIVE Postings(_)
        Postings(postings) ==
            IF postings = <<>> THEN <<>>
            ELSE (IF is_split(Head(postings))
                  THEN split_posting(Head(postings), members)
                  ELSE <<Head(postings)>>) \o Postings(Tail(postings))
        new_entries ==
            [i \in 1..Len(entries_) |->
                IF entries_[i].kind = "Transaction"
                THEN [entries_[i] EXCEPT !.postings = Postings(@)]
                ELSE entries_[i]]
        split_postings(entry) ==
            IF entry.kind # "Transaction" THEN {}
            ELSE {entry.postings[j] :
                     j \in {k \in 1..Len(entry.postings) :
                               is_split(entry.postings[k])}}
        new_accounts ==
            {posting.account \o <<":">> \o members[m] :
                posting \in UNION {split_postings(entries_[i]) :
                                      i \in 1..Len(entries_)},
                m \in 1..Len(members)}
        \* getters.get_account_open_close: the accounts opened or closed.
        oc_map == {entries_[i].account :
                      i \in {k \in 1..Len(entries_) : entries_[k].kind = "Open"}}
        unopened == new_accounts \ oc_map
    IN IF entries_ = <<>> THEN {Raised("IndexError")}
       ELSE {Returned(<<[i \in 1..Len(order) |->
                           Open(0, entries_[1].date, order[i])] \o new_entries,
                        <<>>>>) : order \in KeyOrders(unopened)}

\* One more entry in the list: a transaction, still without postings, or an
\* Open directive. Entries are in the order of their dates.
NewSplitEntry ==
    /\ split_result = <<>>
    /\ Len(split_entries) < MaxSplitEntries
    /\ LET lineno == Len(split_entries) + 1 IN
       \E entry \in {[kind |-> "Transaction", fileloc |-> lineno,
                      date |-> lineno, postings |-> <<>>]}
                    \cup {Open(lineno, lineno, account) :
                             account \in {<<"Expenses", ":", "Food", ":", "Al">>,
                                          <<"Assets", ":", "Cash">>}} :
           split_entries' = Append(split_entries, entry)
    /\ UNCHANGED <<split_config, split_result>>
    /\ UNCHANGED not_split_vars

\* One more posting in the transaction that ends the list, on one of two
\* expense accounts, one of them with "Al" in its name, or on an account that
\* holds no expenses.
NewSplitPosting ==
    /\ split_result = <<>>
    /\ split_entries # <<>>
    /\ split_entries[Len(split_entries)].kind = "Transaction"
    /\ CountPostings(SelectSeq(split_entries,
                               LAMBDA e : e.kind = "Transaction"))
           < MaxSplitPostings
    /\ \E account \in {<<"Expenses", ":", "Food">>,
                        <<"Expenses", ":", "Al", "cohol">>,
                        <<"Assets", ":", "Cash">>} :
           split_entries' =
               [split_entries EXCEPT ![Len(split_entries)].postings =
                   Append(@, [account |-> account,
                              position |-> [units |-> Amount(Dec(3, 0), "USD"),
                                            lot |-> "USD"],
                              meta |-> {"lineno"}])]
    /\ UNCHANGED <<split_config, split_result>>
    /\ UNCHANGED not_split_vars

\* The loader calls the plugin with the option given after its name: a string
\* of names and blanks.
SplitExpenses ==
    /\ split_result = <<>>
    /\ \E config \in UNION {[1..n -> {"Al", "Bo", " "}] : n \in 0..MaxConfig} :
           /\ split_config' = <<config>>
           /\ \E result \in split_expenses(split_entries,
                                           [name_expenses |-> "Expenses"],
                                           config) :
                  split_result' = <<result>>
    /\ UNCHANGED split_entries
    /\ UNCHANGED not_split_vars

NextSplit ==
    \/ NewSplitEntry
    \/ NewSplitPosting
    \/ SplitExpenses

SpecSplit == Init /\ [][NextSplit]_vars

(***************************************************************************)
(* loader.load and validation.validate                                     *)
(*                                                                         *)
(* An entry is its date and the check of validate, if any, that finds it   *)
(* at fault; an error is the stage that reported it and the date of its    *)
(* entry. What the parser, pad, add_implicit_prices, check,                *)
(* process_documents and the plugins do to the entries is not looked into: *)
(* each hands back the entries, possibly with one more as long as there    *)
(* are fewer than MaxLoadEntries, and its errors.                          *)
(***************************************************************************)
\* Most directives that the parser reads, and most plugins of the options.
MaxLoadEntries == 2
MaxPlugins == 2

\* A call with `args` of a function of `arity` positional parameters that
\* goes on to return `value`.
PyCall(arity, args, value) ==
    IF Len(args) = arity THEN Returned(value) ELSE Raised("TypeError")

\* validation.validate(*args).
validate(args) ==
    LET entries_ == args[1]
        \* The errors of one check: one for each entry it finds at fault.
        Found(check) ==
            LET at_fault == SelectSeq(entries_, LAMBDA e : e.fault = check)
            IN [i \in 1..Len(at_fault) |->
                   [stage |-> check, date |-> at_fault[i].date]]
        \* getters.get_accounts(entries)
        accounts == {}
        booking_errors == Found("booking")
        \* validate_open_close(entries) returns its list of errors.
        open_close == PyCall(1, <<entries_, accounts>>, Found("open_close"))
        unused_errors == Found("unused")
        \* validate_open_close__old returns (check_errors, open_map,
        \* close_map).
        check == PyCall(2, <<entries_, accounts>>,
                        <<Found("lifetime"), <<>>, <<>>>>)
        constraint_errors == Found("currency")
        doc_errors == Found("documents")
    IN IF Len(args) # 1 THEN Raised("TypeError")
       ELSE IF open_close.exc # "" THEN open_close
       \* open_close_errors, _, _ = <list>
       ELSE IF Len(open_close.val) # 3 THEN Raised("ValueError")
       ELSE IF check.exc # "" THEN check
       ELSE Returned(booking_errors \o open_close.val[1] \o unused_errors
                         \o check.val[1] \o constraint_errors \o doc_errors)

\* parse_fun(filename): the entries in the order of the file, the errors of
\* the parser, and the plugins that the file asks for.
Parse ==
    /\ load_pc = "parse"
    /\ \E n \in 0..MaxLoadEntries :
           \E parsed \in [1..n -> [date : {1, 2},
                                   fault : {"", "booking", "documents"}]] :
               load_entries' = parsed
    /\ load_errors' \in {<<>>, <<[stage |-> "parse", date |-> 0]>>}
    /\ \E n \in 0..MaxPlugins :
           load_plugins' \in [1..n -> {"importable", "missing"}]
    /\ load_pc' = "pad"
    /\ UNCHANGED <<plugin_index, valid_errors, load_ret>>
    /\ UNCHANGED not_load_vars

\* pad.pad, prices.add_implicit_prices, balance.check and
\* documents.process_documents, each followed by errors.extend.
RunTransformation ==
    /\ LET Transformations == <<"pad", "prices", "check", "documents">> IN
       \E i \in 1..Len(Transformations) :
           /\ load_pc = Transformations[i]
           /\ load_pc' = IF i < Len(Transformations)
                         THEN Transformations[i + 1] ELSE "sort"
    /\ load_entries' \in {load_entries} \cup
           {Append(load_entries, [date |-> 1, fault |-> ""]) :
               n \in (Len(load_entries) + 1)..MaxLoadEntries}
    /\ load_errors' \in
           {load_errors, Append(load_errors, [stage |-> load_pc, date |-> 0])}
    /\ UNCHANGED <<load_plugins, plugin_index, valid_errors, load_ret>>
    /\ UNCHANGED not_load_vars

\* entries.sort(key=data.entry_sortkey), before and after the plugins: a
\* stable sort by date.
SortEntries ==
    /\ load_pc \in {"sort", "sort again"}
    /\ LET RECURSIVE Insert(_, _)
           Insert(sorted, e) ==
               IF sorted = <<>> \/ sorted[Len(sorted)].date <= e.date
               THEN Append(sorted, e)
               ELSE Append(Insert(SubSeq(sorted, 1, Len(sorted) - 1), e),
                           sorted[Len(sorted)])
           RECURSIVE Sort(_)
           Sort(list) ==
               IF list = <<>> THEN <<>>
               ELSE Insert(Sort(SubSeq(list, 1, Len(list) - 1)),
                           list[Len(list)])
       IN load_entries' = Sort(load_entries)
    /\ load_pc' = IF load_pc = "sort" THEN "plugins" ELSE "validate"
    /\ UNCHANGED <<load_errors, load_plugins, plugin_index, valid_errors,
                   load_ret>>
    /\ UNCHANGED not_load_vars

\* One pass of the loop over options_map["plugin"]: the module is imported
\* and its callbacks are run, or the ImportError becomes a LoadError.
RunPlugin ==
    /\ load_pc = "plugins"
    /\ IF plugin_index > Len(load_plugins)
       THEN /\ load_pc' = "sort again"
            /\ UNCHANGED <<load_entries, load_errors, plugin_index>>
       ELSE /\ plugin_index' = plugin_index + 1
            /\ IF load_plugins[plugin_index] = "missing"
               THEN /\ load_errors' =
                           Append(load_errors, [stage |-> "LoadError", date |-> 0])
                    /\ UNCHANGED load_entries
               ELSE /\ load_entries' \in {load_entries} \cup
                           {Append(load_entries, [date |-> 1, fault |-> ""]) :
                               n \in (Len(load_entries) + 1)..MaxLoadEntries}
                    /\ load_errors' \in
                           {load_errors,
                            Append(load_errors, [stage |-> "plugin", date |-> 0])}
            /\ UNCHANGED load_pc
    /\ UNCHANGED <<load_plugins, valid_errors, load_ret>>
    /\ UNCHANGED not_load_vars

\* valid_errors = validation.validate(entries, options_map), then
\* errors.extend(valid_errors) and the return of load.
Validate ==
    /\ load_pc = "validate"
    /\ LET valid == validate(<<load_entries, "options_map">>) IN
       /\ valid_errors' = <<valid>>
       /\ IF valid.exc # ""
          THEN /\ load_ret' = <<Raised(valid.exc)>>
               /\ UNCHANGED load_errors
          ELSE /\ load_errors' = load_errors \o valid.val
               /\ load_ret' = <<Returned(<<load_entries, load_errors'>>)>>
    /\ load_pc' = "done"
    /\ UNCHANGED <<load_entries, load_plugins, plugin_index>>
    /\ UNCHANGED not_load_vars

NextLoad ==
    \/ Parse
    \/ RunTransformation
    \/ SortEntries
    \/ RunPlugin
    \/ Validate

SpecLoad == Init /\ [][NextLoad]_vars

(***************************************************************************)
(* validate_open_close__old                                                *)
(*                                                                         *)
(* An account is the sequence of the pieces of its name, and a directive   *)
(* of the list is named by its place in it wherever the code holds a       *)
(* reference to it: in the maps and in the entry of an error.              *)
(***************************************************************************)
\* Directives in the list handed to validate_open_close__old.
MaxOldEntries == 2

\* check_one(entry, account) of the entry at place i: the errors it appends.
check_one_on_the_day(entries_, i, account, open_map_, close_map_) ==
    LET entry == entries_[i] IN
    (IF account \notin DOMAIN open_map_
           \/ entry.date < entries_[open_map_[account]].date
     THEN <<ValidationError(entry.fileloc,
                            <<"Unknown account {} (or perhaps wrong date?).",
                              account>>, i)>>
     ELSE <<>>)
    \o (IF account \in DOMAIN close_map_
              /\ entry.date >= entries_[close_map_[account]].date
        THEN <<ValidationError(entry.fileloc,
                               <<"Entry after account {} closed.", account>>,
                               i)>>
        ELSE <<>>)

check_one(entries_, i, account, open_map_, close_map_) ==
    LET entry == entries_[i] IN
    (IF account \notin DOMAIN open_map_
           \/ entry.date < entries_[open_map_[account]].date
     THEN <<ValidationError(entry.fileloc,
                            <<"Unknown account {} (or perhaps wrong date?).",
                              account>>, i)>>
     ELSE <<>>)
    \o (IF account \in DOMAIN close_map_
              /\ entry.date > entries_[close_map_[account]].date
        THEN <<ValidationError(entry.fileloc,
                               <<"Entry after account {} closed.", account>>,
                               i)>>
        ELSE <<>>)

\* validate_open_close__old(entries, accounts): the triples (check_errors,
\* open_map, close_map) that it may return, one for each order in which the
\* dict open_map and the set accounts may hand out their elements.
validate_open_close__old(entries_, accounts) ==
    LET startswith(account, prefix) ==
            /\ Len(account) >= Len(prefix)
            /\ SubSeq(account, 1, Len(prefix)) = prefix
        Error(i, text, account) ==
            ValidationError(entries_[i].fileloc, <<text, account>>, i)
        \* The loop over open_map.items() for the Balance at place i, from
        \* the k-th item on: what it leaves in error_entry.
        RECURSIVE items_loop(_, _, _, _, _, _)
        items_loop(i, items, k, open_map_, close_map_, error_entry) ==
            IF k > Len(items) THEN error_entry
            ELSE LET account == items[k] IN
                 IF ~startswith(account, entries_[i].account)
                 THEN items_loop(i, items, k + 1, open_map_, close_map_,
                                 error_entry)
                 ELSE IF entries_[i].date >= entries_[open_map_[account]].date
                 THEN IF account \notin DOMAIN close_map_
                            \/ entries_[i].date
                                   <= entries_[close_map_[account]].date
                      THEN <<>>
                      ELSE items_loop(i, items, k + 1, open_map_, close_map_,
                                      <<close_map_[account]>>)
                 ELSE items_loop(i, items, k + 1, open_map_, close_map_,
                                 <<open_map_[account]>>)
        parent_errors(i, items, open_map_, close_map_) ==
            LET error_entry == items_loop(i, items, 1, open_map_, close_map_,
                                          <<>>)
            IN IF error_entry = <<>> THEN <<>>
               ELSE <<Error(error_entry[1],
                            IF entries_[error_entry[1]].kind = "Open"
                            THEN "Unknown account {} (or perhaps wrong date?)."
                            ELSE "Entry after account {} closed.",
                            entries_[error_entry[1]].account)>>
        RECURSIVE postings_loop(_, _, _, _)
        postings_loop(i, j, open_map_, close_map_) ==
            IF j > Len(entries_[i].postings) THEN <<>>
            ELSE check_one(entries_, i, entries_[i].postings[j], open_map_,
                           close_map_)
                     \o postings_loop(i, j + 1, open_map_, close_map_)
        \* The passes of the main loop from the entry at place i on.
        RECURSIVE loop(_, _, _, _, _)
        loop(i, open_map_, close_map_, check_errors, order) ==
            IF i > Len(entries_)
            THEN <<check_errors, open_map_, close_map_>>
            ELSE LET entry == entries_[i]
                     one == IF entry.kind \in {"Balance", "Note"}
                            THEN check_one(entries_, i, entry.account,
                                           open_map_, close_map_)
                            ELSE <<>>
                 IN
                 CASE entry.kind = "Transaction" ->
                          loop(i + 1, open_map_, close_map_,
                               check_errors
                                   \o postings_loop(i, 1, open_map_, close_map_),
                               order)
                   [] entry.kind = "Open" ->
                          IF entry.account \in DOMAIN open_map_
                          THEN loop(i + 1, open_map_, close_map_,
                                    Append(check_errors,
                                           Error(i, "Duplicate open entry for {}.",
                                                 entry.account)),
                                    order)
                          ELSE loop(i + 1, Put(open_map_, entry.account, i),
                                    close_map_, check_errors, order)
                   [] entry.kind = "Close" ->
                          IF entry.account \in DOMAIN close_map_
                          THEN loop(i + 1, open_map_, close_map_,
                                    Append(check_errors,
                                           Error(i, "Duplicate close entry for {}.",
                                                 entry.account)),
                                    order)
                          ELSE loop(i + 1, open_map_,
                                    Put(close_map_, entry.account, i),
                                    check_errors, order)
                   [] entry.kind = "Balance" ->
                          IF entry.account \in accounts
                          THEN loop(i + 1, open_map_, close_map_,
                                    check_errors \o one, order)
                          ELSE loop(i + 1, open_map_, close_map_,
                                    check_errors
                                        \o parent_errors(
                                               i,
                                               SelectSeq(order,
                                                         LAMBDA a :
                                                             a \in DOMAIN open_map_),
                                               open_map_, close_map_),
                                    order)
                   \* hasattr(entry, 'account') and not a Document
                   [] entry.kind = "Note" ->
                          loop(i + 1, open_map_, close_map_,
                               check_errors \o one, order)
                   [] OTHER ->
                          loop(i + 1, open_map_, close_map_, check_errors,
                               order)
        opened == {entries_[i].account :
                      i \in {k \in 1..Len(entries_) : entries_[k].kind = "Open"}}
    IN {LET looped == loop(1, <<>>, <<>>, <<>>, order)
            missing == SelectSeq(last, LAMBDA a : a \notin DOMAIN looped[2])
        IN <<looped[1]
                 \o [k \in 1..Len(missing) |->
                        ValidationError(0, <<"No open directive for account {}.",
                                             missing[k]>>, 0)],
             looped[2], looped[3]>> :
           order \in KeyOrders(opened), last \in KeyOrders(accounts)}

\* One more directive in the list: an Open, a Close, a Balance, a Note or a
\* Document of an account, or a transaction with a posting to it or with a
\* posting to each account, on any day and in any order of the days.
NewOldEntry ==
    /\ old_result = <<>>
    /\ Len(old_entries) < MaxOldEntries
    /\ LET accounts == {<<"Assets">>, <<"Assets", ":", "Bank">>}
           fileloc == Len(old_entries) + 1
       IN \E date \in {1, 2}, account \in accounts :
              \E entry \in
                  {[kind |-> kind, fileloc |-> fileloc, date |-> date,
                    account |-> account] :
                      kind \in {"Open", "Close", "Balance", "Note", "Document"}}
                  \cup {[kind |-> "Transaction", fileloc |-> fileloc,
                         date |-> date, postings |-> postings] :
                           postings \in {<<account>>,
                                         <<<<"Assets">>,
                                           <<"Assets", ":", "Bank">>>>}} :
                  old_entries' = Append(old_entries, entry)
    /\ UNCHANGED old_result
    /\ UNCHANGED not_old_vars

\* The call, with the accounts that validate passes or any others.
ValidateOld ==
    /\ old_result = <<>>
    /\ \E accounts \in SUBSET {<<"Assets">>, <<"Assets", ":", "Bank">>} :
           \E result \in validate_open_close__old(old_entries, accounts) :
               old_result' = <<result>>
    /\ UNCHANGED old_entries
    /\ UNCHANGED not_old_vars

NextOld ==
    \/ NewOldEntry
    \/ ValidateOld

SpecOld == Init /\ [][NextOld]_vars

(***************************************************************************)
(* DispatchingShell.cmdloop                                                *)
(*                                                                         *)
(* cmd.Cmd.cmdloop reads a line, hands it to the do_ method named by its   *)
(* first word, or to default, and returns when the method returns a true   *)
(* value. Each line read leaves a record in cmd_stdout: the method, the    *)
(* exception raised while it ran, and what was printed.                    *)
(***************************************************************************)
\* Lines read in a session.
MaxLines == 3

\* default(line), when the statement fails in no way or raises `raised`
\* while it is parsed, dispatched, compiled or executed; an exception left
\* uncaught ends cmd.Cmd.cmdloop, and the loop of lines 116-121 with it
\* unless it is a KeyboardInterrupt.
Default_catching_parse_errors ==
    /\ cmd_pc = "prompt"
    /\ Len(cmd_stdout) < MaxLines
    /\ \E raised \in {"", "ParseError", "AttributeError", "CompilationError",
                      "Exception", "KeyboardInterrupt"} :
           LET printed ==
                   CASE raised = "" -> "rows"
                     [] raised = "ParseError" -> "exc"
                     [] raised = "AttributeError" -> "Internal error"
                     [] raised = "CompilationError" -> "ERROR"
                     [] raised = "KeyboardInterrupt" -> "(Interrupted)"
                     [] OTHER -> ""
           IN /\ cmd_stdout' = Append(cmd_stdout,
                                      [method |-> "default", raised |-> raised,
                                       printed |-> printed])
              /\ cmd_pc' = IF raised = "Exception" THEN "ended" ELSE "prompt"
              /\ cmdloop_calls' = IF raised = "KeyboardInterrupt"
                                  THEN cmdloop_calls + 1 ELSE cmdloop_calls
    /\ UNCHANGED not_cmd_vars

Default ==
    /\ cmd_pc = "prompt"
    /\ Len(cmd_stdout) < MaxLines
    /\ \E raised \in {"", "ParseError", "AttributeError", "CompilationError",
                      "Exception", "KeyboardInterrupt"} :
           LET printed ==
                   CASE raised = "" -> "rows"
                     \* except query_parser.ParseError: print(exc)
                     [] raised = "ParseError" -> "exc"
                     \* dispatch finds no on_ method for the statement
                     [] raised = "AttributeError" -> "Internal error"
                     \* on_Print and on_Select print it and return
                     [] raised = "CompilationError" -> "ERROR"
                     \* except KeyboardInterrupt, in cmdloop
                     [] raised = "KeyboardInterrupt" -> "(Interrupted)"
                     \* except Exception: traceback.print_exc()
                     [] OTHER -> "traceback"
           IN /\ cmd_stdout' = Append(cmd_stdout,
                                      [method |-> "default", raised |-> raised,
                                       printed |-> printed])
              /\ cmd_pc' = "prompt"
              /\ cmdloop_calls' = IF raised = "KeyboardInterrupt"
                                  THEN cmdloop_calls + 1 ELSE cmdloop_calls
    /\ UNCHANGED not_cmd_vars

\* A KeyboardInterrupt while the loop waits for a line.
Interrupt ==
    /\ cmd_pc = "prompt"
    /\ Len(cmd_stdout) < MaxLines
    /\ cmd_stdout' = Append(cmd_stdout,
                            [method |-> "input", raised |-> "KeyboardInterrupt",
                             printed |-> "(Interrupted)"])
    /\ cmdloop_calls' = cmdloop_calls + 1
    /\ UNCHANGED cmd_pc
    /\ UNCHANGED not_cmd_vars

\* A line that names a do_ method, or an empty line: exit, quit and EOF
\* print 'exit' and return 1, the others return None.
DoCommand ==
    /\ cmd_pc = "prompt"
    /\ Len(cmd_stdout) < MaxLines
    /\ \E method \in {"do_exit", "do_quit", "do_EOF", "do_history", "do_clear",
                      "do_lex", "do_parse", "do_help", "emptyline"} :
           LET stop == method \in {"do_exit", "do_quit", "do_EOF"} IN
           /\ cmd_stdout' = Append(cmd_stdout,
                                   [method |-> method, raised |-> "",
                                    printed |-> IF stop THEN "exit" ELSE ""])
           /\ cmd_pc' = IF stop THEN "ended" ELSE "prompt"
    /\ UNCHANGED cmdloop_calls
    /\ UNCHANGED not_cmd_vars

NextCmd ==
    \/ Default
    \/ Interrupt
    \/ DoCommand

SpecCmd == Init /\ [][NextCmd]_vars

(***************************************************************************)
(* reports/report.py: Report.render                                        *)
(*                                                                         *)
(* A report is what render reads of it: the formats it has a render_       *)
(* method for, its default_format if its class has one, and what its       *)
(* render methods do once they have written to the file they are given.    *)
(***************************************************************************)
\* A report of some class: a TableReport has default_format 'text' and
\* render methods for text and html among others, a class derived from
\* Report has those it defines.
NewReport ==
    /\ report = <<>>
    /\ \E methods \in SUBSET {"text", "html"},
          default_format \in {<<>>, <<"text">>, <<"html">>},
          method_does \in {"return None", "return a value", "raise"} :
           report' = <<[methods |-> methods, default_format |-> default_format,
                        method_does |-> method_does]>>
    /\ UNCHANGED <<render_args, render_ret, render_calls, outfiles>>
    /\ UNCHANGED not_report_vars

\* render(entries, errors, options_map, output_format, file), with no file
\* or with one, the method called whatever the format asked for.
Render_the_default ==
    /\ report # <<>>
    /\ render_ret = <<>>
    /\ \E output_format \in {<<>>, <<"">>, <<"text">>, <<"html">>},
          file \in {<<>>, <<"file">>} :
           LET self == report[1]
               name == self.default_format
               outfile == IF file = <<>> THEN "StringIO" ELSE "file"
           IN /\ render_args' = <<[output_format |-> output_format,
                                   file |-> file]>>
              /\ IF name = <<>> \/ name[1] \notin self.methods
                 THEN /\ render_ret' = <<Raised("ReportError")>>
                      /\ UNCHANGED <<render_calls, outfiles>>
                 ELSE /\ render_calls' = Append(render_calls, name[1])
                      /\ outfiles' = [outfiles EXCEPT ![outfile] = name[1]]
                      /\ render_ret' =
                             <<CASE self.method_does = "raise" ->
                                        Raised("NotImplementedError")
                                 [] self.method_does = "return a value" ->
                                        Raised("AssertionError")
                                 [] OTHER ->
                                        Returned(IF file = <<>>
                                                 THEN <<outfiles'.StringIO>>
                                                 ELSE <<>>)>>
    /\ UNCHANGED report
    /\ UNCHANGED not_report_vars

\* render(entries, errors, options_map, output_format, file), with no file
\* or with one. A render method writes the name of its format.
Render ==
    /\ report # <<>>
    /\ render_ret = <<>>
    /\ \E output_format \in {<<>>, <<"">>, <<"text">>, <<"html">>},
          file \in {<<>>, <<"file">>} :
           LET self == report[1]
               \* output_format or self.default_format; None when the
               \* attribute is missing, which raises AttributeError.
               name == IF output_format \in {<<>>, <<"">>}
                       THEN self.default_format ELSE output_format
               outfile == IF file = <<>> THEN "StringIO" ELSE "file"
           IN /\ render_args' = <<[output_format |-> output_format,
                                   file |-> file]>>
              /\ IF name = <<>> \/ name[1] \notin self.methods
                 THEN /\ render_ret' = <<Raised("ReportError")>>
                      /\ UNCHANGED <<render_calls, outfiles>>
                 ELSE /\ render_calls' = Append(render_calls, name[1])
                      /\ outfiles' = [outfiles EXCEPT ![outfile] = name[1]]
                      /\ render_ret' =
                             <<CASE self.method_does = "raise" ->
                                        Raised("NotImplementedError")
                                 \* assert result is None
                                 [] self.method_does = "return a value" ->
                                        Raised("AssertionError")
                                 [] OTHER ->
                                        Returned(IF file = <<>>
                                                 THEN <<outfiles'.StringIO>>
                                                 ELSE <<>>)>>
    /\ UNCHANGED report
    /\ UNCHANGED not_report_vars

NextReport ==
    \/ NewReport
    \/ Render

SpecReport == Init /\ [][NextReport]_vars

(***************************************************************************)
(* Properties of the price map.                                            *)
(***************************************************************************)
AllPairs == Currencies \X Currencies

\* The entries of `entries` that are Price entries of the pair.
Observations(base_quote) ==
    {i \in DOMAIN entries :
        entries[i].kind = "Price" /\ base_quote_of(entries[i]) = base_quote}

ObservationsOn(base_quote, date) ==
    {i \in Observations(base_quote) : entries[i].date = date}

Max(set) == CHOOSE x \in set : \A y \in set : y <= x

\* The last observation of the pair on the date, in list order.
LastObservation(base_quote, date) ==
    entries[Max(ObservationsOn(base_quote, date))].amount.number

DatesOf(price_list) == [i \in 1..Len(price_list) |-> price_list[i].date]

\* The rate that the list holds at the date, as a set: empty when it holds
\* none.
RatesAt(price_list, date) ==
    {price_list[i].rate : i \in {j \in 1..Len(price_list) : price_list[j].date = date}}

\* |a * b - 1| <= 5 * 10^-Prec: a and b are inverses up to the rounding of
\* one division.
InverseWithinRounding(a, b) ==
    LET product == a.c * b.c
        scale   == 0 - (a.e + b.e)
    IN /\ scale >= 0
       /\ LET unit == Pow10(scale)
              diff == IF product >= unit THEN product - unit ELSE unit - product
          IN diff <= unit \div (2 * Pow10(Prec - 1))

\* C1 as stated: every key (A,B) of the returned map has its inverse (B,A)
\* as a key, with the same dates in the same order, whose rate at each date
\* equals ONE divided by the rate of (A,B).
C1_InverseIsExact ==
    pc = "built" =>
        \A key \in DOMAIN price_map :
            /\ Reverse(key) \in DOMAIN price_map
            /\ DatesOf(price_map[Reverse(key)]) = DatesOf(price_map[key])
            /\ \A i \in 1..Len(price_map[key]) :
                  price_map[Reverse(key)][i].rate
                      = DecDiv(ONE, price_map[key][i].rate)

\* C1 as amended: every key has its inverse as a key with the same dates in
\* the same order; the inverse of a forward pair holds ONE / rate as the
\* division rounds it, and the two rates of any key and its inverse are
\* inverses of each other within the rounding of one division.
C1_InverseWithinRounding ==
    pc = "built" =>
        \A key \in DOMAIN price_map :
            /\ Reverse(key) \in DOMAIN price_map
            /\ DatesOf(price_map[Reverse(key)]) = DatesOf(price_map[key])
            /\ \A i \in 1..Len(price_map[key]) :
                  /\ key \in forward_pairs =>
                        price_map[Reverse(key)][i].rate
                            = DecDiv(ONE, price_map[key][i].rate)
                  /\ InverseWithinRounding(price_map[key][i].rate,
                                           price_map[Reverse(key)][i].rate)

\* A map is built whose forward rate has no exact inverse.
C1_Witness ==
    /\ pc = "built"
    /\ \E key \in forward_pairs : \E i \in 1..Len(price_map[key]) :
          /\ price_map[key][i].rate = Dec(7, 0)
          /\ price_map[Reverse(key)][i].rate = DecDiv(ONE, Dec(7, 0))

\* C2: the series of every key of the returned map has strictly increasing
\* dates, whatever the order of the entries and the directions they price.
C2_DatesStrictlyIncreasing ==
    pc = "built" =>
        \A key \in DOMAIN price_map :
            \A i \in 1..(Len(price_map[key]) - 1) :
                price_map[key][i].date < price_map[key][i + 1].date

\* A map built from entries that are out of date order, price both
\* directions and repeat a date.
C2_Witness ==
    /\ pc = "built"
    /\ Len(entries) = 3
    /\ entries[1].date > entries[2].date
    /\ entries[3].date = entries[2].date
    /\ \E key \in AllPairs :
          /\ key[1] # key[2]
          /\ Observations(key) # {}
          /\ Observations(Reverse(key)) # {}
          /\ key \in DOMAIN price_map
          /\ Len(price_map[key]) = 2

C4_PoorerDirectionFolded ==
    pc = "built" =>
        \A key \in AllPairs :
            /\ Observations(Reverse(key)) # {}
            /\ Cardinality(Observations(key))
                 > Cardinality(Observations(Reverse(key)))
            => /\ key \in forward_pairs
               /\ Reverse(key) \notin forward_pairs
               /\ \A date \in Dates :
                     IF ObservationsOn(Reverse(key), date) # {}
                     THEN RatesAt(price_map[key], date)
                            = {DecDiv(ONE, LastObservation(Reverse(key), date))}
                     ELSE IF ObservationsOn(key, date) # {}
                     THEN RatesAt(price_map[key], date)
                            = {LastObservation(key, date)}
                     ELSE RatesAt(price_map[key], date) = {}

\* Two entries of one direction on one date, one of the other on another.
C4_Witness ==
    /\ pc = "built"
    /\ \E key \in AllPairs : \E date \in Dates :
          /\ Cardinality(Observations(key)) = 2
          /\ Cardinality(Observations(Reverse(key))) = 1
          /\ ObservationsOn(key, date) = {}
          /\ ObservationsOn(Reverse(key), date) # {}
          /\ Len(price_map[key]) = 2

(***************************************************************************)
(* Properties of the lookups.                                              *)
(***************************************************************************)
Queried(op) == pc = "queried" /\ call.op = op

\* The indices of the points of the list dated on or before the date.
NotLater(price_list, date) ==
    {i \in 1..Len(price_list) : price_list[i].date <= date}

\* C5: for a pair that has a series, get_price with a date returns the point
\* of the greatest date that is not later than it, (None, None) when every
\* point is later, and the last point of the series when no date is given.
C5_GetPriceMostRecent ==
    (Queried("get_price") /\ call.base_quote \in DOMAIN price_map) =>
        LET price_list == price_map[call.base_quote] IN
        IF call.date = <<>>
        THEN ret = Returned(PairOfPoint(price_list[Len(price_list)]))
        ELSE LET before == NotLater(price_list, call.date[1]) IN
             IF before = {}
             THEN ret = Returned(Pair(<<>>, <<>>))
             ELSE \E i \in before :
                    /\ \A j \in before : price_list[j].date <= price_list[i].date
                    /\ ret = Returned(PairOfPoint(price_list[i]))

\* A series of two points queried on the date of the first.
C5_Witness ==
    /\ Queried("get_price")
    /\ call.base_quote \in DOMAIN price_map
    /\ Len(price_map[call.base_quote]) = 2
    /\ call.date = <<price_map[call.base_quote][1].date>>
    /\ ret = Returned(PairOfPoint(price_map[call.base_quote][1]))

\* C6: get_price for a pair of two different currencies that has no series
\* in either direction returns (None, None), and raises nothing.
C6_MissingPairIsNotFound ==
    (/\ Queried("get_price")
     /\ call.base_quote[1] # call.base_quote[2]
     /\ call.base_quote[2] # NoCurrency
     /\ call.base_quote \notin DOMAIN price_map
     /\ Reverse(call.base_quote) \notin DOMAIN price_map)
    => ret = Returned(Pair(<<>>, <<>>))

\* C7: get_price and get_latest_price for a pair (X, X) return (None, ONE),
\* whatever the date and whatever the map holds.
C7_SameCurrencyIsOne ==
    (/\ Queried("get_price") \/ Queried("get_latest_price")
     /\ call.base_quote[1] = call.base_quote[2])
    => ret = Returned(Pair(<<>>, <<ONE>>))

\* (X, X) is looked up on a date in a map built from a Price of X in X and
\* a Price of X in another currency.
C7_Witness ==
    /\ Queried("get_price")
    /\ call.date # <<>>
    /\ call.base_quote[1] = call.base_quote[2]
    /\ Observations(call.base_quote) # {}
    /\ \E key \in DOMAIN price_map : key[1] = call.base_quote[1]
    /\ ret = Returned(Pair(<<>>, <<ONE>>))

\* C8: convert_amount returns the amount itself when it is in the target
\* currency; the number times the latest rate of (source, target), in the
\* target currency, when that pair has a series; and None when neither
\* direction has one.
C8_ConvertAmount ==
    Queried("convert_amount") =>
        LET amount_    == call.amount_[1]
            base_quote == <<amount_.currency, call.target_currency>>
        IN IF amount_.currency = call.target_currency
           THEN ret = Returned(<<amount_>>)
           ELSE IF base_quote \in DOMAIN price_map
           THEN LET price_list == price_map[base_quote] IN
                ret = Returned(<<Amount(
                          DecMul(amount_.number, price_list[Len(price_list)].rate),
                          call.target_currency)>>)
           ELSE Reverse(base_quote) \notin DOMAIN price_map
                    => ret = Returned(<<>>)

\* An amount converted at the later of two rates that differ.
C8_Witness ==
    /\ Queried("convert_amount")
    /\ LET amount_    == call.amount_[1]
           base_quote == <<amount_.currency, call.target_currency>>
       IN /\ base_quote \in DOMAIN price_map
          /\ Len(price_map[base_quote]) = 2
          /\ price_map[base_quote][1].rate # price_map[base_quote][2].rate
          /\ ret.val # <<>>
          /\ ret.val[1].currency = call.target_currency

IsChronological(list) ==
    \A i \in 1..(Len(list) - 1) : list[i].date <= list[i + 1].date

\* The Price entries that the cutoff date lets through.
BeforeCutoff(date) ==
    {i \in DOMAIN entries :
        /\ entries[i].kind = "Price"
        /\ date = <<>> \/ entries[i].date < date[1]}

\* C9: on a list in date order, get_last_price_entries returns, for each
\* pair that has a Price entry before the cutoff date, the last such entry
\* of the list, once, and nothing else; without a date, the last Price
\* entry of every pair.
C9_LastPriceEntries ==
    (Queried("get_last_price_entries") /\ IsChronological(entries)) =>
        LET before == BeforeCutoff(call.date)
            last   == {i \in before :
                          \A j \in before :
                              base_quote_of(entries[j]) = base_quote_of(entries[i])
                                  => j <= i}
        IN /\ {ret.val[k] : k \in 1..Len(ret.val)} = {entries[i] : i \in last}
           /\ Len(ret.val) = Cardinality(last)

\* Two Price entries of one pair, the first before the cutoff date and the
\* second on it: the first is returned.
C9_Witness ==
    /\ Queried("get_last_price_entries")
    /\ Len(entries) = 2
    /\ entries[1].kind = "Price" /\ entries[2].kind = "Price"
    /\ base_quote_of(entries[1]) = base_quote_of(entries[2])
    /\ entries[1].date < entries[2].date
    /\ call.date = <<entries[2].date>>
    /\ ret.val = <<entries[1]>>

(***************************************************************************)
(* Properties of the booking validator.                                    *)
(***************************************************************************)
\* The postings of the first n directives, each with the index of the
\* transaction it is in, in order.
RECURSIVE PostingsOf(_)
PostingsOf(n) ==
    IF n = 0 THEN <<>>
    ELSE PostingsOf(n - 1)
         \o [j \in 1..Len(ledger[n].postings) |->
                [at |-> n, posting |-> ledger[n].postings[j]]]

\* The postings that the loops have been through.
Processed ==
    IF entry_index > Len(ledger) THEN PostingsOf(Len(ledger))
    ELSE PostingsOf(entry_index - 1)
         \o [j \in 1..(posting_index - 1) |->
                [at |-> entry_index,
                 posting |-> ledger[entry_index].postings[j]]]

NothingHeld == [key \in Accounts \X Lots |-> 0]

\* What the postings come to, by the rule of the specification: a posting
\* that would leave the lot of its account with fewer units than none is an
\* offence, recorded with its transaction and the place of it, and changes
\* nothing; any other posting changes the units of that lot.
RECURSIVE Replay(_, _, _)
Replay(postings, held, offences) ==
    IF postings = <<>> THEN [held |-> held, offences |-> offences]
    ELSE LET at      == Head(postings).at
             posting == Head(postings).posting
             key     == <<posting.account, posting.position.lot>>
             after   == held[key] + posting.position.number
         IN IF after < 0
            THEN Replay(Tail(postings), held,
                        Append(offences,
                               ValidationError(ledger[at].fileloc, "ValueError", at)))
            ELSE Replay(Tail(postings), [held EXCEPT ![key] = after], offences)

UnitsHeld(account, lot) ==
    IF account \in DOMAIN balances /\ lot \in DOMAIN balances[account]
    THEN balances[account][lot] ELSE 0

Seen == 1..(oc_index - 1)

\* The directives of one kind and account before place i.
Earlier(kind, account, i) ==
    {j \in 1..(i - 1) : /\ oc_entries[j].kind = kind
                         /\ oc_entries[j].account = account}

Min(set) == CHOOSE x \in set : \A y \in set : x <= y

\* The errors appended for the directive at place i.
ErrorsOf(i) == SelectSeq(oc_errors, LAMBDA error : error.entry = i)

\* What is recorded for an account is the first directive of the kind seen.
FirstRecorded(map, kind) ==
    \A account \in Accounts :
       LET seen == Earlier(kind, account, oc_index) IN
       /\ account \in DOMAIN map <=> seen # {}
       /\ seen # {} => map[account] = Min(seen)

\* C12: every Open after the first Open of its account, and every Close
\* after the first Close of its account, has exactly one error, the
\* duplicate error of its kind, and the Open and the Close recorded for an
\* account are the first ones seen.
C12_DuplicatesReportedOnce ==
    oc_pc \in {"running", "done"} =>
       /\ \A i \in Seen :
             LET entry == oc_entries[i] IN
             /\ (entry.kind = "Open" /\ Earlier("Open", entry.account, i) # {})
                   => ErrorsOf(i) =
                         <<ValidationError(entry.fileloc,
                               <<"Duplicate open directive for {}.", entry.account>>, i)>>
             /\ (entry.kind = "Close" /\ Earlier("Close", entry.account, i) # {})
                   => ErrorsOf(i) =
                         <<ValidationError(entry.fileloc,
                               <<"Duplicate close directive for {}.", entry.account>>, i)>>
       /\ FirstRecorded(open_map, "Open")
       /\ FirstRecorded(close_map, "Close")

\* An account is opened twice and closed twice, on different dates: the
\* second Open and the second Close have one error each and the first ones
\* are recorded.
C12_Witness ==
    /\ oc_pc = "done"
    /\ Len(oc_entries) = 4
    /\ \E account \in Accounts :
          /\ oc_entries = <<Open(1, 1, account), Open(2, 2, account),
                            Close(3, 2, account), Close(4, 1, account)>>
          /\ open_map[account] = 1
          /\ close_map[account] = 3
          /\ oc_errors =
                <<ValidationError(2, <<"Duplicate open directive for {}.", account>>, 2),
                  ValidationError(4, <<"Duplicate close directive for {}.", account>>, 4)>>

\* C13: the first Close of an account has an error if and only if no Open
\* of the account comes before it in the list or its date is not strictly
\* greater than the date of the first such Open; otherwise it has none.
C13_FirstCloseAfterOpen ==
    oc_pc \in {"running", "done"} =>
       \A i \in Seen :
          LET entry == oc_entries[i]
              opens == Earlier("Open", entry.account, i)
          IN (entry.kind = "Close" /\ Earlier("Close", entry.account, i) = {})
                => (ErrorsOf(i) # <<>>
                      <=> \/ opens = {}
                          \/ entry.date <= oc_entries[Min(opens)].date)

\* One account is opened and closed on the same date, which is an error;
\* the other is opened and closed on a later date, which is none.
C13_Witness ==
    /\ oc_pc = "done"
    /\ \E a, b \in Accounts :
          /\ a # b
          /\ oc_entries = <<Open(1, 1, a), Close(2, 1, a),
                            Open(3, 1, b), Close(4, 2, b)>>
          /\ oc_errors =
                <<ValidationError(2,
                              <<"Internal error: closing date for {} appears before opening date.",
                                a>>, 2)>>

(***************************************************************************)
(* Properties of the shell, the compiler and the executor.                 *)
(***************************************************************************)
\* What compiling the statement comes to, as its handler compiles it.
Compiled(statement_) ==
    IF statement_.kind = "Print"
    THEN compile(statement_, env_entries, <<>>, <<>>)
    ELSE compile(statement_, env_targets, env_postings, env_entries)

Called(name) == \E i \in DOMAIN calls : calls[i] = name

\* C14: a statement that does not compile has its error printed and neither
\* execute_query nor execute_print called for it; whenever one of the two
\* is called, the statement has been compiled first and without error.
C14_ExecutedOnlyWhenCompiled ==
    handled > 0 =>
       /\ calls[1] = "compile"
       /\ Compiled(statement).exc = "CompilationError"
             => calls = <<"compile", "print ERROR">>
       /\ (Called("execute_query") \/ Called("execute_print"))
             => Compiled(statement).exc = ""

\* A PRINT with a FROM clause on an unknown column, on a ledger that has
\* directives to print: the error is printed and nothing is written.
C14_Witness ==
    /\ handled > 0
    /\ statement.kind = "Print"
    /\ statement.from_ = <<[column |-> "nope", value |-> "Transaction"]>>
    /\ sh_entries # <<>>
    /\ calls = <<"compile", "print ERROR">>
    /\ printed_entries = <<>>

BareColumns(targets) ==
    {targets[i].column : i \in {j \in DOMAIN targets : targets[j].fn = ""}}

\* The columns of a set, in some order.
Listed(columns) ==
    CHOOSE seq \in [1..Cardinality(columns) -> columns] :
       \A column \in columns : \E i \in DOMAIN seq : seq[i] = column

\* C15: a SELECT whose targets hold an aggregate and a bare column that is
\* not a GROUP BY key is rejected, with no compiled query and nothing
\* executed, and the same statement with the missing columns added to
\* GROUP BY compiles; a SELECT whose bare columns are all GROUP BY keys
\* compiles and is executed.
C15_AggregateWithBareColumn ==
    (/\ handled > 0
     /\ statement.kind = "Select"
     /\ \E i \in DOMAIN statement.targets : statement.targets[i].fn = "sum"
     /\ BareColumns(statement.targets) \subseteq env_targets.columns) =>
       LET keys    == {statement.group_by[i] : i \in DOMAIN statement.group_by}
           missing == BareColumns(statement.targets) \ keys
           outcome == compile(statement, env_targets, env_postings, env_entries)
           added   == [statement EXCEPT !.group_by = @ \o Listed(missing)]
       IN /\ missing # {} =>
                /\ outcome.exc = "CompilationError"
                /\ outcome.val = <<>>
                /\ ~Called("execute_query")
                /\ result_rows = <<>>
                /\ compile(added, env_targets, env_postings, env_entries).exc = ""
          /\ missing = {} =>
                /\ outcome.exc = ""
                /\ Called("execute_query")

\* `SELECT account, SUM(number)` without GROUP BY on a ledger with postings.
C15_Witness ==
    /\ handled > 0
    /\ statement.kind = "Select"
    /\ statement.targets = <<Column("account"), Sum("number")>>
    /\ statement.group_by = <<>>
    /\ \E i \in DOMAIN sh_entries : sh_entries[i].postings # <<>>
    /\ calls = <<"compile", "print ERROR">>

\* The rows in the one order that is sorted by the key and keeps rows of
\* equal keys in the order they had.
StablySorted(rows, c_targets, order) ==
    LET n == Len(rows)
        Key(i) == SortKey(c_targets, order, rows[i])
        Before(i, j) ==
            \/ IF order.descending THEN Key(i) > Key(j) ELSE Key(i) < Key(j)
            \/ Key(i) = Key(j) /\ i < j
        perm == CHOOSE f \in [1..n -> 1..n] :
                   \A i \in 1..(n - 1) : Before(f[i], f[i + 1])
    IN [i \in 1..n |-> rows[perm[i]]]

\* C16: the rows of a SELECT are the first rows, as many as LIMIT says, of
\* the rows of the query before ORDER BY and LIMIT put in the order
\* of the key, rows of equal keys in the order they had before.
C16_LimitAfterStableOrder ==
    (handled > 0 /\ statement.kind = "Select" /\ Compiled(statement).exc = "") =>
       LET c_query == Compiled(statement).val
           rows    == Rows(c_query, sh_entries)
           sorted  == IF c_query.order_by = <<>> THEN rows
                      ELSE StablySorted(rows, c_query.c_targets,
                                        c_query.order_by[1])
           n       == IF c_query.limit = <<>> THEN Len(sorted)
                      ELSE Min({c_query.limit[1], Len(sorted)})
       IN result_rows = SubSeq(sorted, 1, n)

\* Postings of 2, 1 and 1 units, the last two of different accounts, under
\* `SELECT number, account ORDER BY 1 LIMIT 2`: the two rows of one unit, in
\* the order of the ledger.
C16_Witness ==
    /\ handled > 0
    /\ statement = Statement("Select", FALSE,
                             <<Column("number"), Column("account")>>,
                             <<>>, <<>>, <<>>, <<OrderBy(1, FALSE)>>, <<2>>)
    /\ Len(sh_entries) = 3
    /\ \A i \in 1..3 : sh_entries[i].kind = "Transaction"
    /\ result_rows = <<<<1, "Assets:Broker">>, <<1, "Assets:Bank">>>>

C18_JournalIsSelect ==
    (handled > 0 /\ statement.kind \in {"Journal", "Balances"}) =>
       LET select  == IF statement.kind = "Journal"
                      THEN transform_journal(statement)
                      ELSE transform_balances(statement)
           c_query == compile(select, env_targets, env_postings, env_entries)
       IN /\ IF c_query.exc = "CompilationError"
             THEN /\ calls = <<"compile", "print ERROR">>
                  /\ result_rows = <<>>
             ELSE /\ result_rows = execute_query(c_query.val, sh_entries,
                                                 sh_options)
                  /\ calls = <<"compile", "execute_query">>
                                \o Rendering(result_rows)
          /\ printed_entries = <<>>

\* A JOURNAL of one account on a ledger with postings of both: the rows of
\* that account are rendered.
C18_Witness ==
    /\ handled > 0
    /\ statement.kind = "Journal"
    /\ statement.where = <<"Assets:Broker">>
    /\ \E i \in DOMAIN sh_entries :
          /\ sh_entries[i].postings # <<>>
          /\ sh_entries[i].postings[1].account = "Assets:Bank"
    /\ result_rows = <<<<2, "Assets:Broker">>>>
    /\ calls = <<"compile", "execute_query", "get_pager", "render_text">>

RECURSIVE Remaining(_)
Remaining(i) ==
    IF i = 1 THEN 0 ELSE Remaining(i - 1) + fifo_postings[i - 1].units

\* The postings gone through that ask for more units than remain.
Unmatched ==
    {i \in 1..(fifo_index - 1) :
        /\ fifo_postings[i].units < 0
        /\ 0 - fifo_postings[i].units > Remaining(i)
        /\ \A j \in 1..(i - 1) : Remaining(j + 1) >= 0}

MembersOf(config) ==
    LET starts == {i \in 1..Len(config) :
                      config[i] # " " /\ (i = 1 \/ config[i - 1] = " ")}
        start(k) == CHOOSE i \in starts :
                        Cardinality({j \in starts : j < i}) = k - 1
        end(i) == CHOOSE j \in i..Len(config) :
                      /\ \A k \in i..j : config[k] # " "
                      /\ j = Len(config) \/ config[j + 1] = " "
    IN [k \in 1..Cardinality(starts) |->
           SubSeq(config, start(k), end(start(k)))]

\* The name is written somewhere in the account.
Contains(account, name) ==
    \E i \in 1..(Len(account) - Len(name) + 1) :
        SubSeq(account, i, i + Len(name) - 1) = name

\* The posting is on an Expenses account that has no member's name in it.
IsShared(posting, members) ==
    /\ Head(posting.account) = "Expenses"
    /\ \A m \in 1..Len(members) : ~Contains(posting.account, members[m])

\* What is to stand for a posting: itself, or its shares when it is one of
\* `shared`.
SharesOf(posting, members, shared) ==
    IF shared
    THEN [m \in 1..Len(members) |->
             [split |-> TRUE,
              account |-> posting.account \o <<":">> \o members[m],
              units |-> Amount(DecDiv(posting.position.units.number,
                                      Normalize(Len(members), 0)),
                               posting.position.units.currency)]]
    ELSE <<[split |-> FALSE, posting |-> posting]>>

\* The postings are what was to stand for those of the transaction.
StandFor(postings, shares) ==
    /\ Len(postings) = Len(shares)
    /\ \A k \in 1..Len(shares) :
           IF shares[k].split
           THEN /\ postings[k].account = shares[k].account
                /\ postings[k].position.units = shares[k].units
           ELSE postings[k] = shares[k].posting

\* The entries that the plugin returned for those it was given: the last
\* Len(split_entries) of its list, the Open directives it made come before.
SplitOutput ==
    LET list == split_result[1].val[1]
    IN SubSeq(list, Len(list) - Len(split_entries) + 1, Len(list))

\* Every entry that the plugin returned stands for the one it was given, the
\* postings on shared accounts split; with `if_any`, only when there is a
\* member to share with.
SplitAsStated(if_any) ==
    LET members == MembersOf(split_config[1])
        RECURSIVE Shares(_)
        Shares(postings) ==
            IF postings = <<>> THEN <<>>
            ELSE SharesOf(Head(postings), members,
                          /\ IsShared(Head(postings), members)
                          /\ ~if_any \/ members # <<>>)
                     \o Shares(Tail(postings))
    IN /\ Len(split_result[1].val[1]) >= Len(split_entries)
       /\ \A i \in 1..Len(split_entries) :
              IF split_entries[i].kind = "Transaction"
              THEN /\ SplitOutput[i].kind = "Transaction"
                   /\ SplitOutput[i].date = split_entries[i].date
                   /\ StandFor(SplitOutput[i].postings,
                               Shares(split_entries[i].postings))
              ELSE SplitOutput[i] = split_entries[i]

Checks == <<"booking", "open_close", "unused", "lifetime", "currency",
            "documents">>

\* The errors of the checks on the entries, check after check, each in the
\* order of the entries.
RECURSIVE ErrorsOfChecks(_, _)
ErrorsOfChecks(entries_, n) ==
    IF n = 0 THEN <<>>
    ELSE LET at_fault == SelectSeq(entries_, LAMBDA e : e.fault = Checks[n])
         IN ErrorsOfChecks(entries_, n - 1)
                \o [i \in 1..Len(at_fault) |->
                       [stage |-> Checks[n], date |-> at_fault[i].date]]

\* C22: validate, as the loader calls it, returns for every list of entries
\* the errors of the booking, open/close, unused-account, account-lifetime,
\* currency-constraint and document-path checks, in this order, and does
\* not fail.
C22_ValidateReturnsAllErrors ==
    valid_errors # <<>> =>
        /\ valid_errors[1].exc = ""
        /\ valid_errors[1].val = ErrorsOfChecks(load_entries, Len(Checks))

\* The place of an error's stage in the order of load.
StageRank(stage) ==
    CASE stage = "parse" -> 1
      [] stage = "pad" -> 2
      [] stage = "prices" -> 3
      [] stage = "check" -> 4
      [] stage = "documents" -> 5
      [] stage \in {"plugin", "LoadError"} -> 6
      [] OTHER -> 7

\* C23: load runs parse, pad, implicit prices, balance check, documents,
\* sort, the plugins in option order, sort and validation on the sorted
\* entries; it returns the errors of the stages in that order, with one
\* LoadError for each plugin that cannot be imported, after which the later
\* plugins and the validation still run.
C23_LoadStagesInOrder ==
    load_pc = "done" =>
        /\ load_ret[1].exc = ""
        /\ valid_errors # <<>>
        /\ plugin_index = Len(load_plugins) + 1
        /\ LET returned == load_ret[1].val
               load_error(i) == returned[2][i].stage = "LoadError"
           IN /\ \A i, j \in 1..Len(returned[1]) :
                      i < j => returned[1][i].date <= returned[1][j].date
              /\ \A i, j \in 1..Len(returned[2]) :
                      i < j => StageRank(returned[2][i].stage)
                                   <= StageRank(returned[2][j].stage)
              /\ Cardinality({i \in 1..Len(returned[2]) : load_error(i)})
                     = Cardinality({i \in 1..Len(load_plugins) :
                                       load_plugins[i] = "missing"})

(***************************************************************************)
(* Properties of validate_open_close__old.                                 *)
(***************************************************************************)
\* How many of the returned errors the entry at place i yielded with this
\* text about this account.
Yielded(i, text, account) ==
    Cardinality({k \in 1..Len(old_result[1][1]) :
                    /\ old_result[1][1][k].entry = i
                    /\ old_result[1][1][k].message = <<text, account>>})

\* The first directive of the kind for the account before place i, if any.
FirstBefore(kind, account, i) ==
    LET seen == {j \in 1..(i - 1) : /\ old_entries[j].kind = kind
                                    /\ old_entries[j].account = account}
    IN IF seen = {} THEN <<>> ELSE <<old_entries[Min(seen)]>>

\* The entry at place i refers to the account while it is unknown: no Open
\* of it was seen, or the entry is dated before the Open.
IsUnknown(i, account) ==
    LET open == FirstBefore("Open", account, i)
    IN open = <<>> \/ old_entries[i].date < open[1].date

\* The entry at place i refers to the account after a Close of it was seen,
\* and is dated after it.
IsAfterClose(i, account) ==
    LET close == FirstBefore("Close", account, i)
    IN close # <<>> /\ old_entries[i].date > close[1].date

\* C24: each posting of a transaction, and each directive with an account
\* other than an Open, Close, Balance or Document, yields an 'Unknown
\* account' error exactly when no Open of its account was seen earlier or
\* its date is before that Open's, and an 'Entry after account closed'
\* error exactly when a Close of the account was seen earlier and its date
\* is after that Close's; a Document yields neither.
C24_UnknownAndClosedAccounts ==
    old_result # <<>> =>
        \A i \in 1..Len(old_entries) :
            \A account \in {<<"Assets">>, <<"Assets", ":", "Bank">>} :
                LET entry == old_entries[i]
                    references ==
                        CASE entry.kind = "Transaction" ->
                                 Cardinality({j \in 1..Len(entry.postings) :
                                                 entry.postings[j] = account})
                          [] entry.kind = "Note" /\ entry.account = account -> 1
                          [] OTHER -> 0
                    unknown == Yielded(i, "Unknown account {} (or perhaps wrong date?).",
                                       account)
                    closed == Yielded(i, "Entry after account {} closed.", account)
                IN entry.kind \in {"Transaction", "Note", "Document"} =>
                       /\ unknown = IF IsUnknown(i, account) THEN references ELSE 0
                       /\ closed = IF IsAfterClose(i, account) THEN references ELSE 0

\* A transaction dated after the Close of its account, which yields the
\* error once.
C24_Witness ==
    /\ old_result # <<>>
    /\ Len(old_entries) = 2
    /\ old_entries[1].kind = "Close"
    /\ old_entries[2].kind = "Transaction"
    /\ Yielded(2, "Entry after account {} closed.", old_entries[1].account) = 1

(***************************************************************************)
(* Properties of the command loop.                                         *)
(***************************************************************************)
\* C25: a statement that fails while it is parsed, compiled or executed is
\* reported and the shell is back at its prompt; a keyboard interrupt
\* starts the loop again; the loop ends on exit, quit or EOF and on nothing
\* else.
C25_FailuresReturnToPrompt ==
    LET n == Len(cmd_stdout)
        exits == {"do_exit", "do_quit", "do_EOF"}
        interrupts == {k \in 1..n : cmd_stdout[k].raised = "KeyboardInterrupt"}
    IN /\ \A k \in 1..n :
              cmd_stdout[k].raised # "" => cmd_stdout[k].printed # ""
       /\ cmd_pc = "ended" <=> (n > 0 /\ cmd_stdout[n].method \in exits)
       /\ \A k \in 1..(n - 1) : cmd_stdout[k].method \notin exits
       /\ cmdloop_calls = 1 + Cardinality(interrupts)

\* A statement that raised while it was executed, one that did not compile
\* and an interrupt, the shell still at its prompt.
C25_Witness ==
    /\ cmd_pc = "prompt"
    /\ \E i, j, k \in 1..Len(cmd_stdout) :
           /\ cmd_stdout[i].raised = "Exception"
           /\ cmd_stdout[j].raised \in {"ParseError", "CompilationError"}
           /\ cmd_stdout[k].raised = "KeyboardInterrupt"

(***************************************************************************)
(* Properties of Report.render.                                            *)
(***************************************************************************)
\* C26: render with a format name for which the report has no render_
\* method raises ReportError and writes nothing; otherwise it calls that
\* one render method and no other, raises if the method returns a value,
\* and when the method returns None it returns the text if no file was
\* passed, and None with a file, the text then being in the file. A format
\* name is a string that is not empty: without one, the default_format of
\* the report stands for it.
C26_RenderDispatches ==
    render_ret # <<>> =>
        LET self == report[1]
            args == render_args[1]
            result == render_ret[1]
            format == IF args.output_format \in {<<>>, <<"">>}
                      THEN self.default_format ELSE args.output_format
        IN IF format = <<>> \/ format[1] \notin self.methods
           THEN /\ result.exc = "ReportError"
                /\ render_calls = <<>>
                /\ outfiles = [file |-> "", StringIO |-> ""]
           ELSE /\ render_calls = <<format[1]>>
                /\ self.method_does = "return a value"
                       => result.exc = "AssertionError"
                /\ self.method_does = "return None" =>
                       /\ result.exc = ""
                       /\ result.val # <<>> <=> args.file = <<>>
                       /\ args.file = <<>> => result.val = <<format[1]>>
                       /\ args.file # <<>> => outfiles.file = format[1]

\* A report rendered as html into a file although its default is text.
C26_Witness ==
    /\ render_ret # <<>>
    /\ render_ret[1] = Returned(<<>>)
    /\ render_args[1].output_format = <<"html">>
    /\ report[1].default_format = <<"text">>
    /\ outfiles.file = "html"

(***************************************************************************)
(* Further properties of the price map and of the lookups.                 *)
(***************************************************************************)
\* C27: every pair that has a Price entry is a key of the price map with a
\* series that is not empty, and so is its inverse, whatever the entries:
\* pairs observed as often in both directions and a currency priced in
\* itself included.
C27_EveryPricedPairIsAKey ==
    pc = "built" =>
        \A key \in AllPairs :
            Observations(key) # {} =>
                /\ key \in DOMAIN price_map
                /\ price_map[key] # <<>>
                /\ Reverse(key) \in DOMAIN price_map
                /\ price_map[Reverse(key)] # <<>>

\* C28: on a price map that build_price_map returned, a lookup of (A,B)
\* that gets its result from the map gets it from the key (A,B) itself:
\* the series of (B,A), whose rates are not inverted, is never what
\* _lookup_price_and_inverse falls back on. A key's inverse is a key too.
C28_FallbackNeverUsed ==
    /\ pc \in {"built", "queried"} =>
           \A key \in DOMAIN price_map : Reverse(key) \in DOMAIN price_map
    /\ \A op \in {"get_all_prices", "get_latest_price", "get_price"} :
           (/\ Queried(op)
            /\ ret.exc = ""
            /\ op = "get_all_prices" \/ ~IsDegenerate(call.base_quote))
               => /\ call.base_quote \in DOMAIN price_map
                  /\ op = "get_all_prices"
                         => ret.val = price_map[call.base_quote]

\* get_price for a pair that has no Price entry of its own, only its
\* inverse has: the rate comes from the key that build_price_map inserted.
C28_Witness ==
    /\ Queried("get_price")
    /\ ret.exc = ""
    /\ ~IsDegenerate(call.base_quote)
    /\ Observations(call.base_quote) = {}
    /\ Observations(Reverse(call.base_quote)) # {}
    /\ call.base_quote \notin forward_pairs
    /\ ret.val[2] # <<>>

\* -------------------------------------------------------------------------
\* Further properties of validate_inventory_booking
\* -------------------------------------------------------------------------

\* C29: a posting changes only the running inventory of its own account; a
\* reduction of more units of a lot than its own account holds is an error
\* and takes nothing from the units of that lot held in another account;
\* and a directive that is not a transaction changes no inventory and adds
\* no booking error.
C29_OnlyTheOwnAccount ==
    [][ (vpc = "running" /\ entry_index <= Len(ledger)) =>
           IF ledger[entry_index].kind = "Transaction"
           THEN posting_index' = posting_index + 1 =>
                   LET posting == ledger[entry_index].postings[posting_index]
                       lot     == posting.position.lot
                       number  == posting.position.number
                       HeldAfter(account, other) ==
                           IF /\ account \in DOMAIN balances'
                              /\ other \in DOMAIN balances'[account]
                           THEN balances'[account][other] ELSE 0
                   IN /\ \A account \in Accounts \ {posting.account} :
                            \A other \in Lots :
                               HeldAfter(account, other)
                                  = UnitsHeld(account, other)
                      /\ \A other \in Lots \ {lot} :
                            HeldAfter(posting.account, other)
                               = UnitsHeld(posting.account, other)
                      /\ IF UnitsHeld(posting.account, lot) + number < 0
                         THEN /\ Len(errors') = Len(errors) + 1
                              /\ HeldAfter(posting.account, lot)
                                    = UnitsHeld(posting.account, lot)
                         ELSE /\ errors' = errors
                              /\ HeldAfter(posting.account, lot)
                                    = UnitsHeld(posting.account, lot) + number
           ELSE entry_index' = entry_index + 1 =>
                   /\ balances' = balances
                   /\ errors' = errors
      ]_vars

\* A directive that is not a transaction has been passed, then a lot was
\* bought in one account and sold from the other, which holds none of it:
\* the sale is the one error and the buyer still holds the lot.
C29_Witness ==
    /\ vpc = "done"
    /\ Len(ledger) = 2
    /\ ledger[1].kind # "Transaction"
    /\ ledger[2].kind = "Transaction"
    /\ \E buyer \in Accounts, seller \in Accounts, lot \in Lots :
          /\ buyer # seller
          /\ ledger[2].postings = <<Posting(2, buyer, Position(lot, 1)),
                                    Posting(2, seller, Position(lot, 0 - 1))>>
          /\ UnitsHeld(buyer, lot) = 1
          /\ UnitsHeld(seller, lot) = 0
    /\ Len(errors) = 1

====
